---- MODULE Spec2Model ----
(***************************************************************************)
(* Model of the streams library's concurrency core:                        *)
(*   - PoolOfPoolsMixin.map / get_first (streams/executors/mixins.py),     *)
(*     run on a thread-backed executor (streams/executors/executors.py);   *)
(*   - ExecutorPool (streams/poolofpools.py): get, squash,                 *)
(*     get_suitable_worker, worker_finished and the squash helpers.        *)
(*                                                                         *)
(*   - PoolOfPools.get (streams/poolofpools.py): the keywords parallel     *)
(*     and process and the pool a mapper is leased from;                   *)
(*   - the futures of the executors (streams/executors/_gevent.py,         *)
(*     gevent.py, executors.py): result, timeout and cancel;               *)
(*   - Stream (streams/stream.py): first, iteration, nth, median and the   *)
(*     operations map, filter, any and all with a parallel keyword.        *)
(*                                                                         *)
(* MapSpec follows one map generator together with the executor's worker   *)
(* threads.  Spec follows one ExecutorPool and the leases taken from it;   *)
(* SeqSpec and LockSpec follow the sequential executor and the pool's      *)
(* lock.  RegistrySpec follows the calls of PoolOfPools.get, FutureSpec    *)
(* one submitted task and its future, StreamSpec one Stream read by        *)
(* first, next, list, nth and median, and PipelineSpec the Streams built   *)
(* by map, filter, any and all over the workers all Streams share.         *)
(* FairLockSpec follows the threads that call get on one ExecutorPool and  *)
(* the consumers that hand executors back, under fair scheduling.          *)
(***************************************************************************)
EXTENDS Integers, Sequences, FiniteSets, TLC

\* ------------------------------------------------------------------ bounds
MaxLen == 4        \* longest input iterable of a map run
MaxVal == 2        \* input elements are 1..MaxVal
MaxW == 3          \* largest required_workers of a map run
MaxThreads == 3    \* largest _max_workers of the executor of a map run
MaxReq == 8        \* largest required_workers passed to ExecutorPool.get
MaxGets == 3       \* number of ExecutorPool.get calls in one behaviour
MaxCycles == 4     \* number of lease/reclaim cycles run one after another
MaxCallers == 2    \* threads that call one ExecutorPool at the same time
MaxLockReq == 2    \* largest required_workers those threads pass to get
MaxLockGets == 3   \* get calls those threads make when they wait for the lock
MaxRegReq == 2     \* largest integer given as parallel= or process=
MaxRegs == 3       \* number of PoolOfPools.get calls in one behaviour
MaxCalls == 3      \* number of calls made on one future
MaxItem == 2       \* the elements of a Stream are 1..MaxItem
MaxStreamLen == 4  \* longest iterable a Stream is constructed from
MaxOps == 3        \* number of operations called on one Stream
MaxPipeLen == 2    \* longest iterable of a Stream that is mapped or filtered

VARIABLES
    \* ---- one run of PoolOfPoolsMixin.map
    iterable,          \* the input sequence (izip(*iterables))
    raises,            \* the inputs on which fn raises
    required_workers,  \* kwargs["required_workers"]
    max_workers,       \* self._max_workers of the executor
    pc,                \* position of the generator
    consumed,          \* items taken from args_iterator so far
    args,              \* the item held by "for args in args_iterator" (0: none)
    queue,             \* deque of futures, oldest first (futures are named 1, 2, ..)
    futures,           \* state of every submitted future
    first_future,      \* get_first's local (0: none)
    cancel_pos,        \* position of "for future in queue" in get_first
    results,           \* what the consumer has been yielded so far
    error,             \* the exception that reached the consumer
    callbacks,         \* the calls of callback made so far
    cancel_calls,      \* the futures on which cancel() has been called
    ran,               \* the futures whose task was started by a worker thread
    overtaken,         \* some task finished before an earlier submitted one
    \* ---- one ExecutorPool
    workers,           \* self.workers: availability -> list of executors
    capacity,          \* _max_workers of every constructed executor
    leases,            \* the mappers handed out by get, in order
    ret,               \* what the last get call returned (or raised)
    ngets,             \* get and get_any calls made so far
    call,              \* the method the last of those calls was made to
    lock,              \* self.lock: the thread that owns the RLock, and how often
    threads,           \* where every calling thread is inside get, and its locals
    \* ---- one PoolOfPools (Stream.WORKERS)
    pools,             \* self.parallels and self.processes, an ExecutorPool each
    kwargs,            \* the concurrency keywords of the last PoolOfPools.get
    mapper,            \* what that call returned (or that it raised)
    handed,            \* the mappers PoolOfPools.get handed out, in order
    nregs,             \* PoolOfPools.get calls made so far
    \* ---- one submitted task and its future
    job,               \* the executor class, the Future build, whether fn raises
    task,              \* how far the thread or greenlet is with the task
    handle,            \* the future: _state, _result, _exception
    history,           \* the calls made on the future, and how each came out
    \* ---- one Stream
    source,            \* what the Stream was constructed from
    iterator,          \* self.iterator
    ops,               \* the operations called on the Stream so far
    out                \* what the last of them returned (or raised)

mapvars == <<iterable, raises, required_workers, max_workers, pc, consumed,
             args, queue, futures, first_future, cancel_pos, results, error,
             callbacks, cancel_calls, ran, overtaken>>
poolvars == <<workers, capacity, leases, ret, ngets, call, lock, threads>>
registryvars == <<pools, kwargs, mapper, handed, nregs>>
futurevars == <<job, task, handle, history>>
streamvars == <<source, iterator, ops, out>>
othervars == <<registryvars, futurevars, streamvars>>
vars == <<mapvars, poolvars, othervars>>

\* ----------------------------------------------------------------- helpers
Max_first(a, b) == a
Max(a, b) == IF a >= b THEN a ELSE b
SetMax(S) == CHOOSE x \in S : \A y \in S : y <= x
SetMin(S) == CHOOSE x \in S : \A y \in S : x <= y
Min(a, b) == IF a <= b THEN a ELSE b
Range(q) == {q[i] : i \in 1..Len(q)}
SeqsUpTo(S, n) == UNION {[1..m -> S] : m \in 0..n}
NoError == <<"none">>
NoReturn == [worker |-> 0, availability |-> 0, required_workers |-> 0,
             created |-> FALSE, error |-> FALSE]
\* threading.RLock(), not held.
Unlocked == [owner |-> 0, depth |-> 0]
\* A thread that is not inside a call of get.
Outside == [pc |-> "outside", required |-> 0, names |-> <<>>, avails |-> <<>>,
            suitable |-> <<>>, entry |-> <<>>, seen |-> <<>>]
Callers == 1..MaxCallers

\* The values of a concurrency keyword: the key is not in kwargs, or it is
\* None, True or an integer.
Absent == [kind |-> "absent", n |-> 0]
PyNone == [kind |-> "None", n |-> 0]
PyTrue == [kind |-> "True", n |-> 1]
PyInt(n) == [kind |-> "int", n |-> n]
\* PoolOfPools.get returned None.
NoMapper == [pool |-> "none", worker |-> 0, required_workers |-> 0,
             error |-> FALSE]
\* An ExecutorPool as its constructor leaves it.
EmptyPool == [workers |-> <<>>, capacity |-> <<>>]

\* PoolOfPools(): two empty pools, no call made yet.
RegistryAtRest ==
    /\ pools = [parallels |-> EmptyPool, processes |-> EmptyPool]
    /\ kwargs = [parallel |-> Absent, process |-> Absent]
    /\ mapper = NoMapper
    /\ handed = <<>>
    /\ nregs = 0

\* No task submitted: no future.
NoJob == [kind |-> "none", strict |-> FALSE, fails |-> FALSE]
FutureAtRest ==
    /\ job = NoJob
    /\ task = "none"
    /\ handle = [state |-> "none", result |-> "None", exception |-> "none"]
    /\ history = <<>>

\* No Stream constructed.
NoIterator == [kind |-> "none", items |-> <<>>, stages |-> <<>>]
\* What a Stream operation came to: the elements it returned or yielded
\* (none for None), or the exception it raised.
Yielded(items) == [raised |-> "none", items |-> items, truth |-> "none"]
Failed(exception) == [raised |-> exception, items |-> <<>>, truth |-> "none"]
StreamAtRest ==
    /\ source = [kind |-> "none", items |-> <<>>]
    /\ iterator = NoIterator
    /\ ops = <<>>
    /\ out = Yielded(<<>>)

OthersAtRest == RegistryAtRest /\ FutureAtRest /\ StreamAtRest

\* The executor the map runs on (the "self" of map).
Self == "executor"

\* ======================================================================
\*   PoolOfPoolsMixin.map on a thread-backed executor
\* ======================================================================

\* fn(x): the mapped function returns a value or raises.
fn_value(x) == 10 * x
fn_error(x) == <<"error", x>>
fn_raises(x) == x \in raises

\* worker_count = max(kwargs.get("required_workers", ...), 1)
worker_count_off(required) == Max(required, 1) + 1
worker_count(required) == Max(required, 1)

\* queue.popleft()
popleft_right(q) == [item |-> q[Len(q)], rest |-> SubSeq(q, 1, Len(q) - 1)]
popleft(q) == [item |-> Head(q), rest |-> Tail(q)]

\* "for future in queue" of get_first's except branch
futures_in_queue_none(q) == <<>>
futures_in_queue(q) == q

\* Future.cancel(): only a future that has not started is cancelled.
cancel(state) == IF state = "PENDING" THEN "CANCELLED" ELSE state

\* callback(self, worker_count)
callback_call_capacity(required) ==
    [worker |-> Self, required_workers |-> max_workers]
callback_call(required) ==
    [worker |-> Self, required_workers |-> worker_count(required)]

\* self.submit(fn, *args): a new pending future at the tail of the deque.
Submit ==
    /\ futures' = Append(futures, "PENDING")
    /\ queue' = Append(queue, Len(futures) + 1)

MapInit ==
    /\ iterable \in SeqsUpTo(1..MaxVal, MaxLen)
    /\ raises \in SUBSET (1..MaxVal)
    /\ required_workers \in 0..MaxW
    /\ max_workers \in 1..MaxThreads
    /\ pc = "created"
    /\ consumed = 0
    /\ args = 0
    /\ queue = <<>>
    /\ futures = <<>>
    /\ first_future = 0
    /\ cancel_pos = 0
    /\ results = <<>>
    /\ error = NoError
    /\ callbacks = <<>>
    /\ cancel_calls = <<>>
    /\ ran = {}
    /\ overtaken = FALSE
    /\ workers = <<>>
    /\ capacity = <<>>
    /\ leases = <<>>
    /\ ret = NoReturn
    /\ ngets = 0
    /\ call = "none"
    /\ lock = Unlocked
    /\ threads = [t \in Callers |-> Outside]
    /\ OthersAtRest

\* The consumer asks the generator for its next item.
ConsumerNext ==
    /\ pc \in {"created", "yielded_loop", "yielded_drain"}
    /\ pc' = CASE pc = "created" -> "prime"
               [] pc = "yielded_loop" -> "submit"
               [] pc = "yielded_drain" -> "drain"
    /\ UNCHANGED <<iterable, raises, required_workers, max_workers, consumed,
                   args, queue, futures, first_future, cancel_pos, results,
                   error, callbacks, cancel_calls, ran, overtaken>>
    /\ UNCHANGED <<poolvars, othervars>>

\* for args in islice(args_iterator, worker_count): queue.append(submit(..))
Prime ==
    /\ pc = "prime"
    /\ IF Len(futures) < worker_count(required_workers)
          /\ consumed < Len(iterable)
       THEN /\ consumed' = consumed + 1
            /\ Submit
            /\ pc' = pc
       ELSE /\ pc' = "fetch"
            /\ UNCHANGED <<consumed, futures, queue>>
    /\ UNCHANGED <<iterable, raises, required_workers, max_workers, args,
                   first_future, cancel_pos, results, error, callbacks,
                   cancel_calls, ran, overtaken>>
    /\ UNCHANGED <<poolvars, othervars>>

\* Fetch with the yield left out of the loop: every further item is
\* submitted before any result is handed to the consumer.
Fetch_without_yield ==
    /\ pc = "fetch"
    /\ IF consumed < Len(iterable)
       THEN /\ consumed' = consumed + 1
            /\ args' = consumed + 1
            /\ pc' = "submit"
       ELSE /\ pc' = "drain"
            /\ UNCHANGED <<consumed, args>>
    /\ UNCHANGED <<iterable, raises, required_workers, max_workers, queue,
                   futures, first_future, cancel_pos, results, error,
                   callbacks, cancel_calls, ran, overtaken>>
    /\ UNCHANGED <<poolvars, othervars>>
\* for args in args_iterator: takes the next item, or leaves the loop.
Fetch ==
    /\ pc = "fetch"
    /\ IF consumed < Len(iterable)
       THEN /\ consumed' = consumed + 1
            /\ args' = consumed + 1
            /\ pc' = "pop_loop"
       ELSE /\ pc' = "drain"
            /\ UNCHANGED <<consumed, args>>
    /\ UNCHANGED <<iterable, raises, required_workers, max_workers, queue,
                   futures, first_future, cancel_pos, results, error,
                   callbacks, cancel_calls, ran, overtaken>>
    /\ UNCHANGED <<poolvars, othervars>>

\* get_first: first_future = queue.popleft(), which raises IndexError out of
\* map when the deque is empty.
PopFirst ==
    /\ pc \in {"pop_loop", "pop_drain"}
    /\ IF queue = <<>>
       THEN /\ error' = <<"IndexError">>
            /\ pc' = "raised"
            /\ UNCHANGED <<first_future, queue>>
       ELSE /\ first_future' = popleft(queue).item
            /\ queue' = popleft(queue).rest
            /\ pc' = IF pc = "pop_loop" THEN "result_loop"
                     ELSE "result_drain"
            /\ UNCHANGED error
    /\ UNCHANGED <<iterable, raises, required_workers, max_workers, consumed,
                   args, futures, cancel_pos, results, callbacks,
                   cancel_calls, ran, overtaken>>
    /\ UNCHANGED <<poolvars, othervars>>

\* get_first: first_future.result() returns; the finally clause cancels the
\* (finished) future; map yields the result.
ResultReturns_reclaims ==
    /\ pc \in {"result_loop", "result_drain"}
    /\ futures[first_future] = "FINISHED"
    /\ ~fn_raises(iterable[first_future])
    /\ futures' = [futures EXCEPT ![first_future] = cancel(@)]
    /\ cancel_calls' = Append(cancel_calls, first_future)
    /\ results' = Append(results, fn_value(iterable[first_future]))
    /\ pc' = IF pc = "result_loop" THEN "yielded_loop" ELSE "yielded_drain"
    /\ callbacks' = IF queue = <<>> /\ callbacks = <<>>
                    THEN <<callback_call(required_workers)>>
                    ELSE callbacks
    /\ UNCHANGED <<iterable, raises, required_workers, max_workers, consumed,
                   args, queue, first_future, cancel_pos, error, ran,
                   overtaken>>
    /\ UNCHANGED <<poolvars, othervars>>
ResultReturns ==
    /\ pc \in {"result_loop", "result_drain"}
    /\ futures[first_future] = "FINISHED"
    /\ ~fn_raises(iterable[first_future])
    /\ futures' = [futures EXCEPT ![first_future] = cancel(@)]
    /\ cancel_calls' = Append(cancel_calls, first_future)
    /\ results' = Append(results, fn_value(iterable[first_future]))
    /\ pc' = IF pc = "result_loop" THEN "yielded_loop" ELSE "yielded_drain"
    /\ UNCHANGED <<iterable, raises, required_workers, max_workers, consumed,
                   args, queue, first_future, cancel_pos, error, callbacks,
                   ran, overtaken>>
    /\ UNCHANGED <<poolvars, othervars>>

\* get_first: first_future.result() raises; the except branch starts.
ResultRaises ==
    /\ pc \in {"result_loop", "result_drain"}
    /\ \/ /\ futures[first_future] = "FINISHED"
          /\ fn_raises(iterable[first_future])
          /\ error' = fn_error(iterable[first_future])
       \/ /\ futures[first_future] = "CANCELLED"
          /\ error' = <<"CancelledError">>
    /\ cancel_pos' = 1
    /\ pc' = "cancelling"
    /\ UNCHANGED <<iterable, raises, required_workers, max_workers, consumed,
                   args, queue, futures, first_future, results, callbacks,
                   cancel_calls, ran, overtaken>>
    /\ UNCHANGED <<poolvars, othervars>>

\* CancelNext without the reraise: the error is swallowed and the map goes on.
CancelNext_swallow ==
    /\ pc = "cancelling"
    /\ LET todo == futures_in_queue(queue)
       IN IF cancel_pos <= Len(todo)
          THEN /\ futures' = [futures EXCEPT ![todo[cancel_pos]] = cancel(@)]
               /\ cancel_calls' = Append(cancel_calls, todo[cancel_pos])
               /\ cancel_pos' = cancel_pos + 1
               /\ pc' = pc
          ELSE /\ futures' = [futures EXCEPT ![first_future] = cancel(@)]
               /\ cancel_calls' = Append(cancel_calls, first_future)
               /\ cancel_pos' = 0
               /\ pc' = "drain"
    /\ UNCHANGED <<iterable, raises, required_workers, max_workers, consumed,
                   args, queue, first_future, results, error, callbacks, ran,
                   overtaken>>
    /\ UNCHANGED <<poolvars, othervars>>

\* get_first: for future in queue: future.cancel(); then reraise, with the
\* finally clause cancelling first_future on the way out.
CancelNext ==
    /\ pc = "cancelling"
    /\ LET todo == futures_in_queue(queue)
       IN IF cancel_pos <= Len(todo)
          THEN /\ futures' = [futures EXCEPT ![todo[cancel_pos]] = cancel(@)]
               /\ cancel_calls' = Append(cancel_calls, todo[cancel_pos])
               /\ cancel_pos' = cancel_pos + 1
               /\ pc' = pc
          ELSE /\ futures' = [futures EXCEPT ![first_future] = cancel(@)]
               /\ cancel_calls' = Append(cancel_calls, first_future)
               /\ cancel_pos' = 0
               /\ pc' = "raised"
    /\ UNCHANGED <<iterable, raises, required_workers, max_workers, consumed,
                   args, queue, first_future, results, error, callbacks, ran,
                   overtaken>>
    /\ UNCHANGED <<poolvars, othervars>>

\* queue.append(self.submit(fn, *args)) after the yield of the main loop
SubmitNext ==
    /\ pc = "submit"
    /\ Submit
    /\ args' = 0
    /\ pc' = "fetch"
    /\ UNCHANGED <<iterable, raises, required_workers, max_workers, consumed,
                   first_future, cancel_pos, results, error, callbacks,
                   cancel_calls, ran, overtaken>>
    /\ UNCHANGED <<poolvars, othervars>>

\* while queue: ... ; callback(self, worker_count)
Drain ==
    /\ pc = "drain"
    /\ IF queue # <<>>
       THEN /\ pc' = "pop_drain"
            /\ UNCHANGED callbacks
       ELSE /\ callbacks' = Append(callbacks, callback_call(required_workers))
            /\ pc' = "done"
    /\ UNCHANGED <<iterable, raises, required_workers, max_workers, consumed,
                   args, queue, futures, first_future, cancel_pos, results,
                   error, cancel_calls, ran, overtaken>>
    /\ UNCHANGED <<poolvars, othervars>>

\* A worker thread of the executor takes the oldest work item that was not
\* cancelled and runs it; at most _max_workers threads exist.
Running == {i \in 1..Len(futures) : futures[i] = "RUNNING"}
StartTask(i) ==
    /\ futures[i] = "PENDING"
    /\ \A j \in 1..(i - 1) : futures[j] # "PENDING"
    /\ Cardinality(Running) < max_workers
    /\ futures' = [futures EXCEPT ![i] = "RUNNING"]
    /\ ran' = ran \cup {i}
    /\ UNCHANGED <<iterable, raises, required_workers, max_workers, pc,
                   consumed, args, queue, first_future, cancel_pos, results,
                   error, callbacks, cancel_calls, overtaken>>
    /\ UNCHANGED <<poolvars, othervars>>

\* The task returns or raises: the future is finished.
FinishTask(i) ==
    /\ futures[i] = "RUNNING"
    /\ futures' = [futures EXCEPT ![i] = "FINISHED"]
    /\ overtaken' = (overtaken \/ \E j \in 1..(i - 1) : futures[j] = "RUNNING")
    /\ UNCHANGED <<iterable, raises, required_workers, max_workers, pc,
                   consumed, args, queue, first_future, cancel_pos, results,
                   error, callbacks, cancel_calls, ran>>
    /\ UNCHANGED <<poolvars, othervars>>

MapNext ==
    \/ ConsumerNext
    \/ Prime
    \/ Fetch
    \/ PopFirst
    \/ ResultReturns
    \/ ResultRaises
    \/ CancelNext
    \/ SubmitNext
    \/ Drain
    \/ \E i \in 1..MaxLen : i <= Len(futures) /\ StartTask(i)
    \/ \E i \in 1..MaxLen : i <= Len(futures) /\ FinishTask(i)

MapSpec == MapInit /\ [][MapNext]_vars

\* ======================================================================
\*   ExecutorPool
\* ======================================================================

\* self.workers[availability].append(worker) on the defaultdict
dict_append(wk, availability, worker) ==
    [k \in DOMAIN wk \cup {availability} |->
        IF k = availability
        THEN (IF k \in DOMAIN wk THEN Append(wk[k], worker) ELSE <<worker>>)
        ELSE wk[k]]

\* squash: "if not self.workers[avail]: self.workers.pop(avail)"
pop_empty(wk) == [k \in {a \in DOMAIN wk : wk[a] # <<>>} |-> wk[k]]

\* The executors referenced by the idle index.
Filed(wk) == UNION {Range(wk[k]) : k \in DOMAIN wk}
\* The keys an executor is filed under.
KeysOf(wk, worker) == {k \in DOMAIN wk : worker \in Range(wk[k])}

\* name_to_worker_mapping: id(worker) -> worker
name_to_worker_mapping(wk) == [name \in Filed(wk) |-> name]

\* real_worker_availability: availability -> names of the executors whose
\* largest key it is.  The order of a list of names follows the iteration
\* order of a dict keyed by id(), so the lists are kept as sets.
real_worker_availability_min(wk) ==
    LET real_availability == [name \in Filed(wk) |-> SetMin(KeysOf(wk, name))]
        avails == {real_availability[name] : name \in Filed(wk)}
    IN [avail \in avails |->
            {name \in Filed(wk) : real_availability[name] = avail}]
real_worker_availability(wk) ==
    LET real_availability == [name \in Filed(wk) |-> SetMax(KeysOf(wk, name))]
        avails == {real_availability[name] : name \in Filed(wk)}
    IN [avail \in avails |->
            {name \in Filed(wk) : real_availability[name] = avail}]

\* self.expand(expand_to): self._max_workers += expand_to
expand_shrinks(cap, worker, expand_to) ==
    [cap EXCEPT ![worker] = @ - expand_to]
expand(cap, worker, expand_to) == [cap EXCEPT ![worker] = @ + expand_to]

\* squash_workers(names, avails): the outcomes of the while loop, one for
\* every order the lists of names can have.  error: workers[0] raised
\* IndexError on the empty list the defaultdict avails made for a merged key.
RECURSIVE squash_workers(_, _, _, _, _)
squash_workers(names, avails, avails_to_traverse, wk, cap) ==
    IF avails_to_traverse = {}
    THEN {[workers |-> wk, capacity |-> cap, error |-> FALSE]}
    ELSE LET minimal_avail == SetMin(avails_to_traverse)
             rest == avails_to_traverse \ {minimal_avail}
             found == IF minimal_avail \in DOMAIN avails
                      THEN avails[minimal_avail] ELSE {}
             popped == [a \in DOMAIN avails \ {minimal_avail} |-> avails[a]]
         IN IF found = {}
            THEN {[workers |-> wk, capacity |-> cap, error |-> TRUE]}
            ELSE IF Cardinality(found) = 1
            THEN LET selected_worker == names[CHOOSE n \in found : TRUE]
                 IN squash_workers(names, popped, rest,
                        [k \in DOMAIN wk \cup {minimal_avail} |->
                            IF k = minimal_avail THEN <<selected_worker>>
                            ELSE wk[k]],
                        cap)
            ELSE UNION {
                    squash_workers(names, popped,
                        rest \cup {minimal_avail * Cardinality(found)}, wk,
                        expand(cap, names[first],
                               minimal_avail * (Cardinality(found) - 1)))
                    : first \in found}

\* squash
squash_returns_at_once(wk, cap) ==
    {[workers |-> wk, capacity |-> cap, error |-> FALSE]}
squash(wk, cap) ==
    IF DOMAIN wk = {}
    THEN {[workers |-> wk, capacity |-> cap, error |-> FALSE]}
    ELSE LET cleaned == pop_empty(wk)
             avails == real_worker_availability(cleaned)
         IN squash_workers(name_to_worker_mapping(cleaned), avails,
                           DOMAIN avails, <<>>, cap)

\* get_suitable_worker: "min_available is None or min_available < availability"
\* (0 stands for None)
replaces_smaller(min_available, availability) ==
    min_available = 0 \/ min_available > availability
replaces(min_available, availability) ==
    min_available = 0 \/ min_available < availability

\* get_suitable_worker: the loop over iteritems(self.workers)
RECURSIVE suspect(_, _, _, _)
suspect(wk, keys, required, min_available) ==
    IF keys = {}
    THEN min_available
    ELSE LET availability == CHOOSE k \in keys : TRUE
         IN suspect(wk, keys \ {availability}, required,
                IF availability >= required
                   /\ replaces(min_available, availability)
                THEN availability ELSE min_available)

\* get_suitable_worker: (worker, availability), and the index after the pop()
get_suitable_worker_peek(wk, required) ==
    LET min_available == suspect(wk, DOMAIN wk, required, 0)
    IN IF min_available = 0
       THEN [worker |-> 0, availability |-> 0, workers |-> wk,
             error |-> FALSE]
       ELSE IF wk[min_available] = <<>>
       THEN [worker |-> 0, availability |-> 0, workers |-> wk,
             error |-> TRUE]
       ELSE [worker |-> wk[min_available][Len(wk[min_available])],
             availability |-> min_available, workers |-> wk,
             error |-> FALSE]
get_suitable_worker(wk, required) ==
    LET min_available == suspect(wk, DOMAIN wk, required, 0)
    IN IF min_available = 0
       THEN [worker |-> 0, availability |-> 0, workers |-> wk,
             error |-> FALSE]
       ELSE IF wk[min_available] = <<>>
       THEN [worker |-> 0, availability |-> 0, workers |-> wk,
             error |-> TRUE]
       ELSE LET suspected_workers == wk[min_available]
            IN [worker |-> suspected_workers[Len(suspected_workers)],
                availability |-> min_available,
                workers |-> [wk EXCEPT ![min_available] =
                    SubSeq(suspected_workers, 1, Len(suspected_workers) - 1)],
                error |-> FALSE]

\* get: "if availability > 0: self.workers[availability].append(worker)"
file_leftover_always(wk, availability, worker) ==
    dict_append(wk, availability, worker)
file_leftover(wk, availability, worker) ==
    IF availability > 0 THEN dict_append(wk, availability, worker) ELSE wk

\* worker_finished(worker, required_workers)
worker_finished_tidy(wk, worker, required) ==
    pop_empty(dict_append(wk, required, worker))
worker_finished(wk, worker, required) == dict_append(wk, required, worker)

Init ==
    /\ workers = <<>>
    /\ capacity = <<>>
    /\ leases = <<>>
    /\ ret = NoReturn
    /\ ngets = 0
    /\ call = "none"
    /\ lock = Unlocked
    /\ threads = [t \in Callers |-> Outside]
    /\ iterable = <<>>
    /\ raises = {}
    /\ required_workers = 0
    /\ max_workers = 1
    /\ pc = "created"
    /\ consumed = 0
    /\ args = 0
    /\ queue = <<>>
    /\ futures = <<>>
    /\ first_future = 0
    /\ cancel_pos = 0
    /\ results = <<>>
    /\ error = NoError
    /\ callbacks = <<>>
    /\ cancel_calls = <<>>
    /\ ran = {}
    /\ overtaken = FALSE
    /\ OthersAtRest

\* get: "assert required_workers > 0"
required_workers_any(required) == TRUE
required_workers_valid(required) == required > 0

\* What get leaves in ret when it raises.
get_raised(required) ==
    [worker |-> 0, availability |-> 0, required_workers |-> required,
     created |-> FALSE, error |-> TRUE]

\* get: from "if worker is None" to the return, given what
\* get_suitable_worker returned and the index it left; or the IndexError of
\* its pop() on an empty bucket.
get_return_capacity(cap, suitable, required) ==
    LET created == (suitable.worker = 0)
        worker == IF created THEN Len(cap) + 1 ELSE suitable.worker
        availability == IF created THEN required ELSE cap[worker]
    IN IF suitable.error
       THEN [workers |-> suitable.workers, capacity |-> cap,
             ret |-> get_raised(required)]
       ELSE [workers |-> file_leftover(suitable.workers,
                                       availability - required, worker),
             capacity |-> IF created THEN Append(cap, required) ELSE cap,
             ret |-> [worker |-> worker, availability |-> availability,
                      required_workers |-> required, created |-> created,
                      error |-> FALSE]]
get_return(cap, suitable, required) ==
    LET created == (suitable.worker = 0)
        worker == IF created THEN Len(cap) + 1 ELSE suitable.worker
        availability == IF created THEN required ELSE suitable.availability
    IN IF suitable.error
       THEN [workers |-> suitable.workers, capacity |-> cap,
             ret |-> get_raised(required)]
       ELSE [workers |-> file_leftover(suitable.workers,
                                       availability - required, worker),
             capacity |-> IF created THEN Append(cap, required) ELSE cap,
             ret |-> [worker |-> worker, availability |-> availability,
                      required_workers |-> required, created |-> created,
                      error |-> FALSE]]

\* get: everything after squash, on the index and the capacities it left.
get_after_squash(wk, cap, required) ==
    get_return(cap, get_suitable_worker(wk, required), required)

\* get(required_workers) run as one critical section: the assertion, then
\* under the lock squash, search, construct, file the leftover, return the
\* mapper; or leave with the AssertionError, or with the IndexError squash
\* raised.
get_outcomes(wk, cap, required) ==
    IF ~required_workers_valid(required)
    THEN {[workers |-> wk, capacity |-> cap, ret |-> get_raised(required)]}
    ELSE {IF squashed.error
          THEN [workers |-> squashed.workers, capacity |-> squashed.capacity,
                ret |-> get_raised(required)]
          ELSE get_after_squash(squashed.workers, squashed.capacity, required)
          : squashed \in squash(wk, cap)}

\* The mapper get returns is a new lease; a get that raises leases nothing.
lease(returned) ==
    IF returned.error THEN <<>>
    ELSE <<[worker |-> returned.worker,
            required_workers |-> returned.required_workers,
            status |-> "leased"]>>

get(required) ==
    \E outcome \in get_outcomes(workers, capacity, required) :
        /\ workers' = outcome.workers
        /\ capacity' = outcome.capacity
        /\ ret' = outcome.ret
        /\ leases' = leases \o lease(outcome.ret)

\* A call of ExecutorPool.get(required).
Get(required) ==
    /\ ngets < MaxGets
    /\ ngets' = ngets + 1
    /\ call' = "get"
    /\ get(required)
    /\ UNCHANGED <<lock, threads>>
    /\ UNCHANGED <<mapvars, othervars>>

\* A call of ExecutorPool.get_any(): self.get(min(iterkeys(self.workers))),
\* the keys of empty buckets included; min() of no keys raises ValueError.
GetAny_creates ==
    /\ ngets < MaxGets
    /\ ngets' = ngets + 1
    /\ call' = "get_any"
    /\ IF DOMAIN workers = {}
       THEN get(1)
       ELSE get(SetMin(DOMAIN workers))
    /\ UNCHANGED <<lock, threads>>
    /\ UNCHANGED <<mapvars, othervars>>
GetAny ==
    /\ ngets < MaxGets
    /\ ngets' = ngets + 1
    /\ call' = "get_any"
    /\ IF DOMAIN workers = {}
       THEN /\ ret' = get_raised(0)
            /\ UNCHANGED <<workers, capacity, leases>>
       ELSE get(SetMin(DOMAIN workers))
    /\ UNCHANGED <<lock, threads>>
    /\ UNCHANGED <<mapvars, othervars>>

\* The mapper of lease l is consumed to exhaustion: map calls
\* callback(self, worker_count), which is worker_finished.
MapExhausted_capacity(l) ==
    /\ leases[l].status = "leased"
    /\ workers' = worker_finished(workers, leases[l].worker,
                                  capacity[leases[l].worker])
    /\ leases' = [leases EXCEPT ![l].status = "exhausted"]
    /\ UNCHANGED <<capacity, ret, ngets, call, lock, threads>>
    /\ UNCHANGED <<mapvars, othervars>>
MapExhausted(l) ==
    /\ leases[l].status = "leased"
    /\ workers' = worker_finished(workers, leases[l].worker,
                                  worker_count(leases[l].required_workers))
    /\ leases' = [leases EXCEPT ![l].status = "exhausted"]
    /\ UNCHANGED <<capacity, ret, ngets, call, lock, threads>>
    /\ UNCHANGED <<mapvars, othervars>>

\* A task of lease l fails: get_first re-raises out of map, the generator
\* ends there and the line that calls the callback is never reached.
MapRaised(l) ==
    /\ leases[l].status = "leased"
    /\ leases' = [leases EXCEPT ![l].status = "raised"]
    /\ UNCHANGED <<workers, capacity, ret, ngets, call, lock, threads>>
    /\ UNCHANGED <<mapvars, othervars>>

Next ==
    \/ \E required \in 0..MaxReq : Get(required)
    \/ GetAny
    \/ \E l \in 1..MaxGets : l <= Len(leases) /\ MapExhausted(l)
    \/ \E l \in 1..MaxGets : l <= Len(leases) /\ MapRaised(l)

Spec == Init /\ [][Next]_vars

\* ---- one ExecutorPool used without contention: a mapper is consumed to
\* exhaustion before the next get is called.
GetAlone(required) ==
    /\ \A l \in 1..Len(leases) : leases[l].status # "leased"
    /\ ngets < MaxCycles
    /\ ngets' = ngets + 1
    /\ call' = "get"
    /\ get(required)
    /\ UNCHANGED <<lock, threads>>
    /\ UNCHANGED <<mapvars, othervars>>

SeqNext ==
    \/ \E required \in 1..MaxReq : GetAlone(required)
    \/ \E l \in 1..MaxCycles : l <= Len(leases) /\ MapExhausted(l)

SeqSpec == Init /\ [][SeqNext]_vars

\* ---- one ExecutorPool called by several threads.  get is followed
\* statement by statement; every statement that reads or writes self.workers
\* is a step of its own.

\* RLock.acquire(): the lock is free or the caller already owns it.
may_acquire_always(owner, t) == TRUE
may_acquire(owner, t) == owner = 0 \/ owner = t

\* "with self.lock:" entered by thread t / left n levels up by its owner.
acquired(t) == [owner |-> t, depth |-> lock.depth + 1]
released_never(n) == lock
released(n) == IF lock.depth > n
               THEN [owner |-> lock.owner, depth |-> lock.depth - n]
               ELSE Unlocked

\* Thread t leaves get with the exception raised inside the with blocks.
GetRaises(t) ==
    /\ ret' = get_raised(threads[t].required)
    /\ threads' = [threads EXCEPT ![t] = Outside]
    /\ UNCHANGED leases

\* get: the assertion holds and thread t enters "with self.lock:".
GetEnters(t, required) ==
    /\ threads[t].pc = "outside"
    /\ ngets < MaxGets
    /\ required_workers_valid(required)
    /\ may_acquire(lock.owner, t)
    /\ lock' = acquired(t)
    /\ ngets' = ngets + 1
    /\ call' = "get"
    /\ threads' = [threads EXCEPT ![t] =
            [Outside EXCEPT !.pc = "squash", !.required = required,
                            !.entry = <<workers, capacity>>,
                            !.seen = <<workers, capacity>>]]
    /\ UNCHANGED <<workers, capacity, leases, ret>>
    /\ UNCHANGED <<mapvars, othervars>>

\* squash: returns at once on an empty index; else enters its own
\* "with self.lock:", pops the empty buckets and computes the arguments of
\* squash_workers.
SquashCleans(t) ==
    /\ threads[t].pc = "squash"
    /\ IF DOMAIN workers = {}
       THEN /\ threads' = [threads EXCEPT ![t].pc = "get_suitable_worker"]
            /\ UNCHANGED <<workers, lock>>
       ELSE /\ may_acquire(lock.owner, t)
            /\ lock' = acquired(t)
            /\ workers' = pop_empty(workers)
            /\ threads' = [threads EXCEPT
                    ![t].pc = "squash_workers",
                    ![t].names = name_to_worker_mapping(workers'),
                    ![t].avails = real_worker_availability(workers'),
                    ![t].seen = <<workers', capacity>>]
    /\ UNCHANGED <<capacity, leases, ret, ngets, call>>
    /\ UNCHANGED <<mapvars, othervars>>

\* squash_workers(names, avails) replaces self.workers and expands the
\* survivors; squash leaves its with block, or the IndexError leaves both.
SquashWorkers(t) ==
    /\ threads[t].pc = "squash_workers"
    /\ \E squashed \in squash_workers(threads[t].names, threads[t].avails,
                            DOMAIN threads[t].avails, <<>>, capacity) :
        /\ workers' = squashed.workers
        /\ capacity' = squashed.capacity
        /\ IF squashed.error
           THEN /\ GetRaises(t)
                /\ lock' = released(2)
           ELSE /\ threads' = [threads EXCEPT
                        ![t].pc = "get_suitable_worker",
                        ![t].seen = <<workers', capacity'>>]
                /\ lock' = released(1)
                /\ UNCHANGED <<leases, ret>>
    /\ UNCHANGED <<ngets, call>>
    /\ UNCHANGED <<mapvars, othervars>>

\* get: worker, availability = self.get_suitable_worker(required_workers)
GetSuitableWorker(t) ==
    /\ threads[t].pc = "get_suitable_worker"
    /\ LET suitable == get_suitable_worker(workers, threads[t].required)
       IN /\ workers' = suitable.workers
          /\ IF suitable.error
             THEN /\ GetRaises(t)
                  /\ lock' = released(1)
             ELSE /\ threads' = [threads EXCEPT
                          ![t].pc = "return",
                          ![t].suitable = suitable,
                          ![t].seen = <<workers', capacity>>]
                  /\ UNCHANGED <<leases, ret, lock>>
    /\ UNCHANGED <<capacity, ngets, call>>
    /\ UNCHANGED <<mapvars, othervars>>

\* get: constructs the executor if none was found, files the leftover,
\* leaves "with self.lock:" and returns the mapper.
GetReturns(t) ==
    /\ threads[t].pc = "return"
    /\ LET outcome == get_return(capacity,
                          [threads[t].suitable EXCEPT !.workers = workers],
                          threads[t].required)
       IN /\ workers' = outcome.workers
          /\ capacity' = outcome.capacity
          /\ ret' = outcome.ret
          /\ leases' = leases \o lease(outcome.ret)
    /\ lock' = released(1)
    /\ threads' = [threads EXCEPT ![t] = Outside]
    /\ UNCHANGED <<ngets, call>>
    /\ UNCHANGED <<mapvars, othervars>>

\* Thread t has consumed the mapper of lease l to exhaustion: map calls
\* worker_finished, which appends under "with self.lock:".
WorkerFinished(t, l) ==
    /\ threads[t].pc = "outside"
    /\ leases[l].status = "leased"
    /\ may_acquire(lock.owner, t)
    /\ workers' = worker_finished(workers, leases[l].worker,
                                  worker_count(leases[l].required_workers))
    /\ leases' = [leases EXCEPT ![l].status = "exhausted"]
    /\ UNCHANGED <<capacity, ret, ngets, call, lock, threads>>
    /\ UNCHANGED <<mapvars, othervars>>

LockNext ==
    \/ \E t \in Callers : \E required \in 1..MaxLockReq :
            GetEnters(t, required)
    \/ \E t \in Callers : SquashCleans(t)
    \/ \E t \in Callers : SquashWorkers(t)
    \/ \E t \in Callers : GetSuitableWorker(t)
    \/ \E t \in Callers : GetReturns(t)
    \/ \E t \in Callers : \E l \in 1..MaxGets :
            l <= Len(leases) /\ WorkerFinished(t, l)

LockSpec == Init /\ [][LockNext]_vars

\* ---- the same pool, with the wait for the lock made visible: a thread
\* that called get stands at "with self.lock:" until it owns the lock, and
\* a consumer whose map has run through its loops stands at the
\* "with self.lock:" of worker_finished.

\* get: the assertion holds and thread t arrives at "with self.lock:".
GetCalled(t, required) ==
    /\ threads[t].pc = "outside"
    /\ ngets < MaxLockGets
    /\ required_workers_valid(required)
    /\ ngets' = ngets + 1
    /\ call' = "get"
    /\ threads' = [threads EXCEPT ![t] =
            [Outside EXCEPT !.pc = "lock", !.required = required]]
    /\ UNCHANGED <<workers, capacity, leases, ret, lock>>
    /\ UNCHANGED <<mapvars, othervars>>

\* get: thread t enters "with self.lock:".
GetLocks(t) ==
    /\ threads[t].pc = "lock"
    /\ may_acquire(lock.owner, t)
    /\ lock' = acquired(t)
    /\ threads' = [threads EXCEPT ![t].pc = "squash",
                                  ![t].entry = <<workers, capacity>>,
                                  ![t].seen = <<workers, capacity>>]
    /\ UNCHANGED <<workers, capacity, leases, ret, ngets, call>>
    /\ UNCHANGED <<mapvars, othervars>>

\* The tasks of lease l are done and its consumer has asked once more: map
\* is through its loops and calls callback(self, worker_count).
MapEnds(l) ==
    /\ leases[l].status = "leased"
    /\ leases' = [leases EXCEPT ![l].status = "ended"]
    /\ UNCHANGED <<workers, capacity, ret, ngets, call, lock, threads>>
    /\ UNCHANGED <<mapvars, othervars>>

\* worker_finished: the consumer of lease l, a thread that is not inside
\* get, takes the lock, appends and leaves the with block.
Reclaims(l) ==
    /\ leases[l].status = "ended"
    /\ may_acquire(lock.owner, 0)
    /\ workers' = worker_finished(workers, leases[l].worker,
                                  worker_count(leases[l].required_workers))
    /\ leases' = [leases EXCEPT ![l].status = "exhausted"]
    /\ UNCHANGED <<capacity, ret, ngets, call, lock, threads>>
    /\ UNCHANGED <<mapvars, othervars>>

\* The statements of get thread t runs while it owns the lock.
UnderLock(t) ==
    \/ SquashCleans(t)
    \/ SquashWorkers(t)
    \/ GetSuitableWorker(t)
    \/ GetReturns(t)

FairLockNext ==
    \/ \E t \in Callers : \E required \in {1, MaxLockReq} :
            GetCalled(t, required)
    \/ \E t \in Callers : GetLocks(t)
    \/ \E t \in Callers : UnderLock(t)
    \/ \E l \in 1..MaxLockGets : l <= Len(leases) /\ MapEnds(l)
    \/ \E l \in 1..MaxLockGets : l <= Len(leases) /\ Reclaims(l)

\* Fair scheduling: a thread that can run its next statement does, and a
\* thread that stands at a lock which is free again and again gets it.
FairLockSpec ==
    /\ Init
    /\ [][FairLockNext]_vars
    /\ \A t \in Callers : WF_vars(UnderLock(t))
    /\ \A t \in Callers : SF_vars(GetLocks(t))
    /\ \A l \in 1..MaxLockGets : SF_vars(l <= Len(leases) /\ Reclaims(l))

\* ======================================================================
\*   Properties of the map run (checked under MapSpec)
\* ======================================================================

\* [fn(x) for x in iterable[1..n]]
Expected(n) == [i \in 1..n |-> fn_value(iterable[i])]
Failing == {i \in 1..Len(iterable) : fn_raises(iterable[i])}
FirstFail == IF Failing = {} THEN 0 ELSE SetMin(Failing)
\* Futures submitted whose result the map has not obtained yet.
InFlight ==
    Range(queue) \cup
        (IF pc \in {"result_loop", "result_drain"} THEN {first_future} ELSE {})

\* C1: a map with W >= 1 workers that was consumed to exhaustion has yielded
\* exactly [fn(x) for x in iterable], in input order, whatever the order in
\* which the tasks finished.
C1_OrderPreserved ==
    (pc = "done" /\ required_workers >= 1)
        => results = Expected(Len(iterable))

\* A finished map of two different inputs, two workers or more, in which a
\* later task finished before an earlier one.
C1_Witness ==
    /\ pc = "done"
    /\ required_workers >= 2
    /\ Len(iterable) >= 3
    /\ iterable[1] # iterable[2]
    /\ overtaken
    /\ results = Expected(Len(iterable))

\* C2: at every instant of a map with W >= 1 workers, at most W futures are
\* in the deque, at most W futures are submitted with their result not yet
\* obtained, and at most W tasks of the map are running.
C2_BoundedInFlight ==
    required_workers >= 1 =>
        /\ Len(queue) <= required_workers
        /\ Cardinality(InFlight) <= required_workers
        /\ Cardinality(Running) <= required_workers

\* The window is full, all its tasks are running on an executor that has
\* more threads than W, and input is left.
C2_Witness ==
    /\ required_workers >= 2
    /\ max_workers > required_workers
    /\ Len(queue) = required_workers
    /\ Cardinality(Running) = required_workers
    /\ consumed < Len(iterable)

\* C3: if fn raises first on the k-th input of a map with W >= 1 workers, the
\* consumer is yielded the first k-1 results and nothing more, the map never
\* completes, the error that reaches the consumer is the one fn raised on the
\* k-th input, and no input beyond k+W-1 is ever submitted or run.
C3_FailFast ==
    (required_workers >= 1 /\ FirstFail # 0) =>
        LET k == FirstFail
        IN /\ Len(results) <= k - 1
           /\ results = Expected(Len(results))
           /\ Len(futures) <= k + required_workers - 1
           /\ ran \subseteq 1..(k + required_workers - 1)
           /\ pc # "done"
           /\ error \in {NoError, fn_error(iterable[k])}
           /\ pc = "raised" =>
                /\ Len(results) = k - 1
                /\ error = fn_error(iterable[k])

\* The second of four inputs failed with two workers: one result was yielded,
\* three inputs were submitted, the fourth never was.
C3_Witness ==
    /\ pc = "raised"
    /\ required_workers = 2
    /\ Len(iterable) = 4
    /\ FirstFail = 2
    /\ results = Expected(1)
    /\ Len(futures) = 3
    /\ error = fn_error(iterable[2])

\* The cancel() calls get_first makes while it handles a failure.
CleanupCalls ==
    IF Len(cancel_calls) > Len(queue)
    THEN SubSeq(cancel_calls, Len(cancel_calls) - Len(queue),
                Len(cancel_calls))
    ELSE cancel_calls

C5_CallbackOnce ==
    /\ Len(callbacks) <= 1
    /\ (pc = "done") <=> (Len(callbacks) = 1)
    /\ (pc = "done" /\ required_workers >= 1) =>
        /\ callbacks = <<[worker |-> Self,
                          required_workers |-> required_workers]>>
        /\ Len(results) = Len(iterable)

\* An exhausted map whose W differs from the executor's capacity.
C5_Witness ==
    /\ pc = "done"
    /\ Len(iterable) >= 2
    /\ required_workers >= 1
    /\ required_workers # max_workers
    /\ Len(results) = Len(iterable)
    /\ callbacks = <<[worker |-> Self, required_workers |-> required_workers]>>

\* The empty input: nothing is yielded and the callback is still called with W.
C5_EmptyInput ==
    /\ pc = "done"
    /\ iterable = <<>>
    /\ required_workers = 2
    /\ results = <<>>
    /\ callbacks = <<[worker |-> Self, required_workers |-> 2]>>

\* ======================================================================
\*   Properties of ExecutorPool (checked under Spec)
\* ======================================================================

\* The step is a call of get(required).
IsGet(required) ==
    ngets' = ngets + 1 /\ ret'.required_workers = required
\* The tracked spare capacity of a filed executor: its largest key.
TrackedSpare(wk, worker) == SetMax(KeysOf(wk, worker))
\* The spare capacities tracked by the idle index.
IdleSpares(wk) == {TrackedSpare(wk, worker) : worker \in Filed(wk)}
\* How often an executor is filed in the idle index.
TimesFiled(wk, worker) ==
    Cardinality({e \in UNION {{k} \X (1..Len(wk[k])) : k \in DOMAIN wk} :
                    wk[e[1]][e[2]] = worker})

\* C6: a lease whose map failed with the task's error has its executor back
\* in the idle index, filed under the W it was leased for.
C6_FailedLeaseReclaimed ==
    \A l \in 1..Len(leases) :
        leases[l].status = "raised" =>
            /\ leases[l].required_workers \in DOMAIN workers
            /\ leases[l].worker \in
                    Range(workers[leases[l].required_workers])

\* C7: whenever an idle executor has tracked spare >= required,
\* get(required) returns an executor that was idle and constructs none.
C7_ReusesIdle ==
    [][\A required \in 1..MaxReq :
        (IsGet(required)
         /\ \E spare \in IdleSpares(workers) : spare >= required)
        => /\ ~ret'.error
           /\ ~ret'.created
           /\ ret'.worker \in Filed(workers)
           /\ Len(capacity') = Len(capacity)]_vars

\* C8: whenever no idle executor has tracked spare >= required,
\* get(required) returns a new executor of capacity exactly required, expands
\* no executor, and leaves every idle executor filed under the spare it had.
C8_CreatesExactly ==
    [][\A required \in 1..MaxReq :
        (IsGet(required)
         /\ \A spare \in IdleSpares(workers) : spare < required)
        => /\ ~ret'.error
           /\ ret'.created
           /\ ret'.worker = Len(capacity) + 1
           /\ capacity' = Append(capacity, required)
           /\ Filed(workers') = Filed(workers)
           /\ \A worker \in Filed(workers) :
                TrackedSpare(workers', worker) = TrackedSpare(workers, worker)
       ]_vars

\* C7, apart from the calls in which squash raises: a get that returns while
\* an idle executor has tracked spare >= required returns an idle executor.
C7_ReusesIdleWhenReturns ==
    [][\A required \in 1..MaxReq :
        (IsGet(required) /\ ~ret'.error
         /\ \E spare \in IdleSpares(workers) : spare >= required)
        => /\ ~ret'.created
           /\ ret'.worker \in Filed(workers)
           /\ Len(capacity') = Len(capacity)]_vars

\* C8's scenario: get(4), reclaim, get(2), get(3) ends with a new executor of
\* capacity 3 and the first executor still filed under 2.
C8_Scenario ==
    /\ ret = [worker |-> 2, availability |-> 3, required_workers |-> 3,
              created |-> TRUE, error |-> FALSE]
    /\ capacity = <<4, 3>>
    /\ DOMAIN workers = {2}
    /\ workers[2] = <<1>>

\* C9: when get(required) returns an idle executor, it is one filed in the
\* bucket of the largest tracked spare (which is >= required), not of the
\* smallest sufficient one, and it is re-filed under what is left of that
\* spare.
C9_LargestBucket ==
    [][\A required \in 1..MaxReq :
        (IsGet(required) /\ ~ret'.error /\ ~ret'.created)
        => LET largest == SetMax(IdleSpares(workers))
           IN /\ largest >= required
              /\ ret'.availability = largest
              /\ ret'.worker \in Range(workers[largest])
              /\ largest > required =>
                    ret'.worker \in Range(workers'[largest - required])
       ]_vars

\* Idle spares {4, 8} and get(3): the spare-8 executor is leased and re-filed
\* under 5, the spare-4 executor stays where it was.
C9_Witness ==
    /\ ret = [worker |-> 2, availability |-> 8, required_workers |-> 3,
              created |-> FALSE, error |-> FALSE]
    /\ capacity = <<4, 8>>
    /\ 4 \in DOMAIN workers /\ workers[4] = <<1>>
    /\ 5 \in DOMAIN workers /\ workers[5] = <<2>>
    /\ Filed(workers) = {1, 2}

\* C10: after get(required) chose an executor with tracked spare s (s =
\* required for a new one), the executor is filed exactly once, under
\* s - required, if s > required, and is filed nowhere if s = required.
C10_LeftoverFiled ==
    [][\A required \in 1..MaxReq :
        (IsGet(required) /\ ~ret'.error)
        => LET s == ret'.availability
               worker == ret'.worker
           IN /\ s >= required
              /\ ret'.created => s = required
              /\ s > required =>
                    /\ KeysOf(workers', worker) = {s - required}
                    /\ TimesFiled(workers', worker) = 1
              /\ s = required => KeysOf(workers', worker) = {}
       ]_vars

\* An executor of capacity 4 with two leases of 2 running at once: the first
\* get filed the leftover 2, the second get took exactly that and left the
\* executor filed nowhere.
C10_Witness ==
    /\ ret = [worker |-> 1, availability |-> 2, required_workers |-> 2,
              created |-> FALSE, error |-> FALSE]
    /\ capacity = <<4>>
    /\ \E l1, l2 \in 1..Len(leases) :
        /\ l1 # l2
        /\ leases[l1] = [worker |-> 1, required_workers |-> 2,
                         status |-> "leased"]
        /\ leases[l2] = leases[l1]
    /\ KeysOf(workers, 1) = {}

\* The outcomes of the squash a get would run now that return.
Squashed == {o \in squash(workers, capacity) : ~o.error}
\* The executors whose tracked spare is k.
WithSpare(wk, k) == {worker \in Filed(wk) : TrackedSpare(wk, worker) = k}

\* C11: after every squash that returns, every bucket of the idle index
\* holds at most one executor.
C11_OnePerBucket ==
    \A o \in Squashed :
        \A k \in DOMAIN o.workers : Len(o.workers[k]) <= 1

\* Two executors of spare 1 and one of spare 2 are idle: squash returns with
\* the single bucket 2 and has expanded one of the spare-1 executors.
C11_Witness ==
    /\ Cardinality(WithSpare(workers, 1)) = 2
    /\ Cardinality(WithSpare(workers, 2)) = 1
    /\ \E o \in Squashed :
        /\ DOMAIN o.workers = {2}
        /\ Len(o.workers[2]) = 1
        /\ o.capacity # capacity

\* C12: when squash finds n > 1 executors of the same tracked spare k, it
\* returns, one of them has been expanded by k * (n - 1) and is filed under
\* k * n or more, and the other n - 1 are no longer filed.
C12_MergeRefiles ==
    \A o \in squash(workers, capacity) :
        \A k \in IdleSpares(workers) :
            LET same == WithSpare(workers, k)
                n == Cardinality(same)
            IN n > 1 =>
                /\ ~o.error
                /\ \E survivor \in same :
                    /\ o.capacity[survivor] >= capacity[survivor] + k * (n - 1)
                    /\ survivor \in Filed(o.workers)
                    /\ TrackedSpare(o.workers, survivor) >= k * n
                    /\ (same \ {survivor}) \cap Filed(o.workers) = {}

\* The step is a call of get_any().
IsGetAny == ngets' = ngets + 1 /\ call' = "get_any"
\* No two idle executors have the same tracked spare, so that squash has
\* nothing to merge.
DistinctSpares(wk) ==
    \A k \in IdleSpares(wk) : Cardinality(WithSpare(wk, k)) = 1

\* C16: get_any, called while executors of pairwise different tracked spares
\* are idle, leases the one of the smallest tracked spare and leaves every
\* executor of a larger spare filed under the spare it had.
C16_SmallestLeased ==
    [][(IsGetAny /\ Filed(workers) # {} /\ DistinctSpares(workers))
       => LET smallest == SetMin(IdleSpares(workers))
          IN /\ ~ret'.error
             /\ ret'.worker \in WithSpare(workers, smallest)
             /\ \A worker \in Filed(workers) :
                    TrackedSpare(workers, worker) > smallest
                    => /\ worker \in Filed(workers')
                       /\ TrackedSpare(workers', worker)
                            = TrackedSpare(workers, worker)
      ]_vars

\* C20: a call get(required) with required < 1 fails, constructs no executor
\* and leaves the idle index, every capacity and the leases as they were.
C20_InvalidRejected ==
    [][(ngets' = ngets + 1 /\ call' = "get" /\ ret'.required_workers < 1)
       => /\ ret'.error
          /\ ~ret'.created
          /\ workers' = workers
          /\ capacity' = capacity
          /\ leases' = leases
      ]_vars

\* get(0) was called while two executors of spare 1 were idle: it failed
\* before squash ran, both are still filed.
C20_Witness ==
    /\ call = "get"
    /\ ret.error
    /\ ret.required_workers = 0
    /\ Cardinality(WithSpare(workers, 1)) = 2
    /\ capacity = <<1, 1>>

\* The bucket of key k, empty if the index has no such key.
Bucket(wk, k) == IF k \in DOMAIN wk THEN wk[k] ELSE <<>>
\* The step in which lease l completes and its executor is reclaimed.
Completes(l) ==
    /\ leases[l].status = "leased"
    /\ Len(leases') = Len(leases)
    /\ leases'[l].status = "exhausted"
\* The leases in flight.
Leased == {l \in 1..Len(leases) : leases[l].status = "leased"}

\* C14, as claimed: an executor with a lease in flight is filed nowhere in
\* the idle index.
C14_LeasedNotFiled ==
    \A l \in Leased : leases[l].worker \notin Filed(workers)

\* C14, amended: get takes the executor it leases out of the bucket it chose
\* it from and leaves it filed at most once; the only step that adds an entry
\* for an executor is the completion of one of its leases, which files it
\* under the amount that lease was for.
C14_EntersOnCompletion ==
    [][/\ \A required \in 1..MaxReq :
            (IsGet(required) /\ ~ret'.error)
            => /\ ret'.worker \notin Range(Bucket(workers', ret'.availability))
               /\ TimesFiled(workers', ret'.worker) <= 1
       /\ \A worker \in 1..Len(capacity') :
            TimesFiled(workers', worker) > TimesFiled(workers, worker)
            => \E l \in Leased :
                /\ Completes(l)
                /\ leases[l].worker = worker
                /\ Bucket(workers', leases[l].required_workers)
                    = Append(Bucket(workers, leases[l].required_workers),
                             worker)
      ]_vars

\* The executor of capacity 4 has a lease of 2 in flight and is filed under
\* 1: an earlier lease of 1 has completed, and get has re-filed what the
\* lease of 2 left of the spare 3.
C14_Witness ==
    /\ capacity = <<4>>
    /\ Len(leases) = 3
    /\ leases[2] = [worker |-> 1, required_workers |-> 1,
                    status |-> "exhausted"]
    /\ leases[3] = [worker |-> 1, required_workers |-> 2,
                    status |-> "leased"]
    /\ 1 \in DOMAIN workers /\ workers[1] = <<1>>

\* C15: worker_finished(worker, amount) appends worker to the bucket of key
\* amount and changes no other bucket and no capacity; executors that now
\* share a bucket stay there.
C15_WorkerFinishedFrame ==
    [][\A l \in Leased :
        Completes(l)
        => LET amount == leases[l].required_workers
           IN /\ DOMAIN workers' = DOMAIN workers \cup {amount}
              /\ workers'[amount]
                    = Append(Bucket(workers, amount), leases[l].worker)
              /\ \A k \in DOMAIN workers \ {amount} :
                    workers'[k] = workers[k]
              /\ capacity' = capacity
      ]_vars

\* Two executors were leased for 2 and both leases have completed: they
\* share the bucket 2 and neither has been expanded.
C15_Witness ==
    /\ capacity = <<2, 2>>
    /\ DOMAIN workers = {2}
    /\ workers[2] = <<1, 2>>
    /\ Leased = {}

CyclesUpTo(C) ==
    /\ ngets >= 1
    /\ Leased = {}
    /\ ret.required_workers = C
    /\ Len(leases) >= ngets - 1
    /\ \E n \in 0..Len(leases) :
        /\ \A l \in 1..n : leases[l].required_workers < C
        /\ \A l \in (n + 1)..Len(leases) : leases[l].required_workers = C

\* C13: after lease/reclaim cycles of capacities below C run one after
\* another, a cycle of capacity C succeeds and leaves an idle index that
\* squash brings to exactly one executor of spare >= C; further cycles of C
\* keep it so.
C13_CoalescingIdempotent ==
    \A C \in 1..MaxReq :
        CyclesUpTo(C)
        => /\ ~ret.error
           /\ \A o \in squash(workers, capacity) :
                /\ ~o.error
                /\ Cardinality({worker \in Filed(o.workers) :
                        TrackedSpare(o.workers, worker) >= C}) = 1

\* C13, apart from the calls in which squash raises.
C13_WhenSquashReturns ==
    \A C \in 1..MaxReq :
        (CyclesUpTo(C) /\ ~ret.error)
        => \A o \in Squashed :
                Cardinality({worker \in Filed(o.workers) :
                    TrackedSpare(o.workers, worker) >= C}) = 1

\* ======================================================================
\*   The map run with required_workers = 0 (checked under MapSpec)
\* ======================================================================

\* C19, as claimed: a map called with required_workers = 0 submits no task,
\* and once it is started it ends with an error.
C19_ZeroRejected ==
    required_workers = 0 =>
        /\ futures = <<>>
        /\ pc \notin {"yielded_loop", "yielded_drain", "done"}

\* C19, amended: a map called with required_workers = 0 is not rejected; it
\* runs as with one worker: at most one future in flight, no error but the
\* one fn raised first, and when exhausted all results in order and the
\* callback called with 1.
C19_ZeroRunsAsOne ==
    required_workers = 0 =>
        /\ Len(queue) <= 1
        /\ Cardinality(InFlight) <= 1
        /\ error # NoError =>
                /\ FirstFail # 0
                /\ error = fn_error(iterable[FirstFail])
        /\ pc = "done" =>
                /\ results = Expected(Len(iterable))
                /\ callbacks = <<[worker |-> Self, required_workers |-> 1]>>

\* A map with required_workers = 0 on an executor of several threads has
\* mapped three inputs and called the callback with 1.
C19_Witness ==
    /\ required_workers = 0
    /\ max_workers >= 2
    /\ pc = "done"
    /\ Len(iterable) >= 3
    /\ Len(futures) = Len(iterable)
    /\ results = Expected(Len(iterable))
    /\ callbacks = <<[worker |-> Self, required_workers |-> 1]>>

\* ======================================================================
\*   Properties of the ExecutorPool called by several threads (LockSpec)
\* ======================================================================

\* Thread t is inside the critical section of get.
InGet(t) == threads[t].pc # "outside"

\* C18: calls of get and worker_finished made by several threads are
\* serialized: at most one thread is inside get's critical section; the
\* index and the capacities such a thread finds at each of its statements
\* are those its previous statement left, so no reclaim and no other get
\* comes in between; and what a get has done when it leaves is what get run
\* as one step does on the index it found when it took the lock.
C18_Serialized ==
    /\ [](\A t1, t2 \in Callers : (InGet(t1) /\ InGet(t2)) => t1 = t2)
    /\ [](\A t \in Callers :
            InGet(t) => /\ threads[t].seen = <<workers, capacity>>
                        /\ lock.owner = t)
    /\ [][\A t \in Callers :
            (InGet(t) /\ threads'[t].pc = "outside")
            => \E outcome \in get_outcomes(threads[t].entry[1],
                                  threads[t].entry[2], threads[t].required) :
                /\ workers' = outcome.workers
                /\ capacity' = outcome.capacity
                /\ ret' = outcome.ret
                /\ leases' = leases \o lease(outcome.ret)
         ]_vars

\* A thread is inside get and has popped an idle executor, while the mapper
\* of another executor is still leased: its reclaim has to wait for the
\* lock.
C18_Witness ==
    \E t \in Callers :
        /\ threads[t].pc = "return"
        /\ threads[t].suitable.worker # 0
        /\ lock = [owner |-> t, depth |-> 1]
        /\ \E l \in Leased : leases[l].worker # threads[t].suitable.worker

\* ======================================================================
\*   PoolOfPools (streams/poolofpools.py)
\* ======================================================================

\* self.default_count = cpu_count()
default_count == 3

\* What a caller may give as parallel= or as process=.
Keyword == {Absent, PyNone, PyTrue} \cup {PyInt(n) : n \in 1..MaxRegReq}

\* "parallel" in kwargs
in_kwargs(value) == value.kind # "absent"
\* parallel in (1, True): True equals 1
in_one_true(value) == value.kind \in {"True", "int"} /\ value.n = 1
\* parallel is not None
is_not_none_always(value) == TRUE
is_not_none(value) == value.kind # "None"

\* One "if key in kwargs" block of PoolOfPools.get: whether it returns, and
\* the count it passes on.
returns_mapper(value) ==
    in_kwargs(value) /\ (in_one_true(value) \/ is_not_none(value))
passed_count(value) ==
    IF in_one_true(value) THEN PyInt(default_count) ELSE value

\* PoolOfPools.get(kwargs): the pool the call is passed to and the count it
\* is passed with; the parallel block comes first.  "none": falls through
\* and returns None.
routed_process_first(kw) ==
    IF returns_mapper(kw.process)
    THEN [pool |-> "processes", required |-> passed_count(kw.process)]
    ELSE IF returns_mapper(kw.parallel)
    THEN [pool |-> "parallels", required |-> passed_count(kw.parallel)]
    ELSE [pool |-> "none", required |-> PyNone]
routed(kw) ==
    IF returns_mapper(kw.parallel)
    THEN [pool |-> "parallels", required |-> passed_count(kw.parallel)]
    ELSE IF returns_mapper(kw.process)
    THEN [pool |-> "processes", required |-> passed_count(kw.process)]
    ELSE [pool |-> "none", required |-> PyNone]

\* ExecutorPool.get_any() as one critical section.
get_any_outcomes(wk, cap) ==
    IF DOMAIN wk = {}
    THEN {[workers |-> wk, capacity |-> cap, ret |-> get_raised(0)]}
    ELSE get_outcomes(wk, cap, SetMin(DOMAIN wk))

\* PoolOfPools.get_from_pool(pool, required_workers)
get_from_pool(pool, required) ==
    IF required.kind = "None"
    THEN get_any_outcomes(pool.workers, pool.capacity)
    ELSE get_outcomes(pool.workers, pool.capacity, required.n)

\* What PoolOfPools.get hands back for what the pool's get returned.
mapper_of(pool, returned) ==
    [pool |-> pool, worker |-> returned.worker,
     required_workers |-> returned.required_workers,
     error |-> returned.error]
handed_out(pool, returned) ==
    IF returned.error THEN <<>>
    ELSE <<[pool |-> pool, worker |-> returned.worker,
            required_workers |-> returned.required_workers,
            status |-> "leased"]>>

\* PoolOfPools.get(kwargs) on the given pools: the pools it leaves, the
\* mappers handed out so far and what it returns.
PoolOfPools_get(ps, hs, kw) ==
    LET to == routed(kw)
    IN IF to.pool = "none"
       THEN {[pools |-> ps, handed |-> hs, mapper |-> NoMapper]}
       ELSE {[pools |-> [ps EXCEPT ![to.pool] =
                            [workers |-> outcome.workers,
                             capacity |-> outcome.capacity]],
              handed |-> hs \o handed_out(to.pool, outcome.ret),
              mapper |-> mapper_of(to.pool, outcome.ret)] :
             outcome \in get_from_pool(ps[to.pool], to.required)}

\* A call of PoolOfPools.get(kwargs).
RegistryGet(kw) ==
    /\ nregs < MaxRegs
    /\ nregs' = nregs + 1
    /\ kwargs' = kw
    /\ \E got \in PoolOfPools_get(pools, handed, kw) :
          /\ pools' = got.pools
          /\ handed' = got.handed
          /\ mapper' = got.mapper
    /\ UNCHANGED <<mapvars, poolvars, futurevars, streamvars>>

\* The mapper handed out as l is consumed to exhaustion: map calls the
\* callback, the worker_finished of the pool the mapper came from.
finished(ps, hs, l) ==
    [pools |-> [ps EXCEPT ![hs[l].pool].workers =
                   worker_finished(@, hs[l].worker, hs[l].required_workers)],
     handed |-> [hs EXCEPT ![l].status = "exhausted"]]

RegistryExhausted(l) ==
    /\ handed[l].status = "leased"
    /\ handed' = finished(pools, handed, l).handed
    /\ pools' = finished(pools, handed, l).pools
    /\ UNCHANGED <<kwargs, mapper, nregs>>
    /\ UNCHANGED <<mapvars, poolvars, futurevars, streamvars>>

RegistryNext ==
    \/ \E parallel \in Keyword, process \in Keyword :
          RegistryGet([parallel |-> parallel, process |-> process])
    \/ \E l \in 1..Len(handed) : RegistryExhausted(l)

RegistrySpec == Init /\ [][RegistryNext]_vars

\* ----------------------------------------------------------- properties

\* The step is a call of PoolOfPools.get.
RegistryCall == nregs' = nregs + 1
\* The keyword is given and is not None.
Given(value) == value.kind \in {"True", "int"}
\* The executors of a pool that are filed in its idle index.
IdleIn(pool) == Filed(pool.workers)

\* C21: a call of PoolOfPools.get in which neither parallel nor process is
\* given, or every given one is None, returns None (so that Stream.map falls
\* back to imap), changes the idle index of neither pool, constructs no
\* executor and hands out no mapper.
C21_NoneWhenDisabled ==
    [][RegistryCall /\ ~Given(kwargs'.parallel) /\ ~Given(kwargs'.process)
       => /\ mapper' = NoMapper
          /\ pools' = pools
          /\ handed' = handed]_vars

\* Such a call was made while the parallel pool had an idle executor to
\* lease, with parallel=None.
C21_Witness ==
    /\ nregs = 2
    /\ kwargs.parallel = PyNone
    /\ ~Given(kwargs.process)
    /\ mapper = NoMapper
    /\ IdleIn(pools.parallels) # {}

\* The keyword value PoolOfPools.get acts on: parallel when it is given and
\* not None, else process.
Asked(kw) == IF Given(kw.parallel) THEN kw.parallel ELSE kw.process
\* The number of workers the caller asked for: the integer, or for True
\* the default count.
AskedCount(value) == IF value.kind = "True" THEN default_count ELSE value.n

\* C22: a call of PoolOfPools.get with parallel (resp. process) an integer
\* n >= 1 returns a mapper leased for exactly n workers, and with True a
\* mapper leased for the default count.
C22_LeasedForN ==
    [][RegistryCall /\ (Given(kwargs'.parallel) \/ Given(kwargs'.process))
       => /\ mapper'.pool # "none"
          /\ ~mapper'.error
          /\ mapper'.required_workers = AskedCount(Asked(kwargs'))]_vars

\* The same for True and for the integers other than 1, as long as the
\* pool's get returns.
C22_LeasedForNExceptOne ==
    [][RegistryCall /\ (Given(kwargs'.parallel) \/ Given(kwargs'.process))
                    /\ Asked(kwargs') # PyInt(1)
       => /\ mapper'.pool # "none"
          /\ mapper'.error
             \/ mapper'.required_workers = AskedCount(Asked(kwargs'))]_vars

\* C23: in a call of PoolOfPools.get with both parallel and process given and
\* not None the process pool is left as it was and a returned mapper belongs
\* to the parallel pool; with parallel absent or None and process given and
\* not None the parallel pool is left as it was and a returned mapper
\* belongs to the process pool.
C23_OnePoolLeased ==
    [][RegistryCall
       => /\ Given(kwargs'.parallel) /\ Given(kwargs'.process)
             => /\ pools'.processes = pools.processes
                /\ mapper'.pool = "parallels"
                /\ \A l \in Len(handed) + 1..Len(handed') :
                      handed'[l].pool = "parallels"
          /\ ~Given(kwargs'.parallel) /\ Given(kwargs'.process)
             => /\ pools'.parallels = pools.parallels
                /\ mapper'.pool = "processes"
                /\ \A l \in Len(handed) + 1..Len(handed') :
                      handed'[l].pool = "processes"]_vars

\* Both keywords were given while the process pool had an idle executor:
\* the mapper came from a newly constructed executor of the parallel pool
\* and the process pool still has its idle executor.
C23_Witness ==
    /\ nregs = 2
    /\ Given(kwargs.parallel) /\ Given(kwargs.process)
    /\ mapper.pool = "parallels" /\ ~mapper.error
    /\ Len(handed) = 2 /\ handed[1].pool = "processes"
    /\ IdleIn(pools.processes) # {}
    /\ Len(pools.parallels.capacity) = 1

\* parallel was None and process given while the parallel pool had an idle
\* executor: the mapper came from the process pool.
C23_WitnessProcess ==
    /\ nregs = 2
    /\ kwargs.parallel = PyNone /\ Given(kwargs.process)
    /\ mapper.pool = "processes" /\ ~mapper.error
    /\ IdleIn(pools.parallels) # {}

\* ======================================================================
\*   The futures of the executors (streams/executors)
\* ======================================================================

\* The executor classes: submit of SequentalExecutor runs the task inline,
\* ThreadPoolExecutor hands it to a worker thread, GeventExecutor to a
\* greenlet.  "_gevent" is streams/executors/_gevent.py, the module
\* streams/executors/__init__.py imports GeventExecutor from; "gevent" is
\* streams/executors/gevent.py, which nothing imports.
Executors == {"SequentalExecutor", "ThreadPoolExecutor", "_gevent", "gevent"}
Greenlets == {"_gevent", "gevent"}
\* ParallelExecutor: ThreadPoolExecutor, or GeventExecutor of _gevent when
\* gevent.monkey is loaded.
ParallelExecutor == {"ThreadPoolExecutor", "_gevent"}

\* What a call on a future came to: a returned value, or an exception.
Returned(value) == [raised |-> "none", value |-> value]
Raised(exception) == [raised |-> exception, value |-> "None"]

\* Future.set_result(result).  A strict build refuses a future that is
\* cancelled or finished (InvalidStateError); the others overwrite.
set_result(h, strict, value) ==
    IF strict /\ h.state \in {"CANCELLED", "FINISHED"}
    THEN [handle |-> h, raised |-> "InvalidStateError"]
    ELSE [handle |-> [h EXCEPT !.state = "FINISHED", !.result = value],
          raised |-> "none"]

\* Future.set_exception(exception)
set_exception(h, strict, exception) ==
    IF strict /\ h.state \in {"CANCELLED", "FINISHED"}
    THEN [handle |-> h, raised |-> "InvalidStateError"]
    ELSE [handle |-> [h EXCEPT !.state = "FINISHED",
                               !.exception = exception],
          raised |-> "none"]

\* Future.result(timeout) of concurrent.futures once its wait is over:
\* CancelledError, the stored exception, the stored result, or TimeoutError
\* when the future is still pending or running.
Future_result(h) ==
    IF h.state = "CANCELLED" THEN Raised("CancelledError")
    ELSE IF h.state = "FINISHED"
    THEN IF h.exception # "none" THEN Raised(h.exception)
         ELSE Returned(h.result)
    ELSE Raised("TimeoutError")

\* The greenlet is dead: it finished, or it was killed.
ready(t) == t \in {"done", "killed"}

\* GreenletFuture.execute(timeout) followed by Future.result(timeout):
\* self._greenlet.get(True, timeout) returns the value of a finished
\* greenlet (GreenletExit for a killed one), re-raises what the task raised,
\* or raises Timeout, which execute stores with set_exception.
execute(h, strict, t, fails) ==
    IF ~ready(t) THEN set_exception(h, strict, "Timeout")
    ELSE IF t = "killed" THEN set_result(h, strict, "GreenletExit")
    ELSE IF fails THEN [handle |-> h, raised |-> "Exception"]
    ELSE set_result(h, strict, "fn(x)")

GreenletFuture_result(h, strict, t, fails) ==
    LET executed == execute(h, strict, t, fails)
    IN IF executed.raised # "none"
       THEN [handle |-> executed.handle, out |-> Raised(executed.raised)]
       ELSE [handle |-> executed.handle,
             out |-> Future_result(executed.handle)]

\* future.result(timeout) for the future of the given executor class.
result(kind, h, strict, t, fails) ==
    IF kind \in Greenlets THEN GreenletFuture_result(h, strict, t, fails)
    ELSE [handle |-> h, out |-> Future_result(h)]

\* A result() call without timeout returns only when its wait is over: the
\* greenlet is dead, or the future is cancelled or finished.
wait_over(kind, h, t) ==
    IF kind \in Greenlets THEN ready(t)
    ELSE h.state \in {"CANCELLED", "FINISHED"}

\* What cancel() does to the greenlet: _gevent.py does not override cancel,
\* gevent.py kills the greenlet first, and greenlet.kill() leaves a greenlet
\* that has not finished dead from now on.
cancel_greenlet(kind, t) ==
    IF kind = "gevent" /\ t # "done" THEN "killed" ELSE t

\* One entry of the history.
Called(method, before, outcome) ==
    [method |-> method, before |-> before, raised |-> outcome.raised,
     value |-> outcome.value]

\* executor.submit(fn, x).  SequentalExecutor runs fn before it returns the
\* future; the others return a pending future.
SubmitTask(kind, strict, fails) ==
    /\ job = NoJob
    /\ job' = [kind |-> kind, strict |-> strict, fails |-> fails]
    /\ IF kind = "SequentalExecutor"
       THEN /\ task' = "done"
            /\ handle' = IF fails
                         THEN [state |-> "FINISHED", result |-> "None",
                               exception |-> "Exception"]
                         ELSE [state |-> "FINISHED", result |-> "fn(x)",
                               exception |-> "none"]
       ELSE /\ task' = "waiting"
            /\ handle' = [state |-> "PENDING", result |-> "None",
                          exception |-> "none"]
    /\ UNCHANGED history
    /\ UNCHANGED <<mapvars, poolvars, registryvars, streamvars>>

\* The task is taken up.  A worker thread first calls
\* set_running_or_notify_cancel and drops the task of a cancelled future; a
\* greenlet does not look at the future.
TaskStarts ==
    /\ task = "waiting"
    /\ IF job.kind = "ThreadPoolExecutor"
       THEN IF handle.state = "CANCELLED"
            THEN task' = "dropped" /\ UNCHANGED handle
            ELSE task' = "running"
                 /\ handle' = [handle EXCEPT !.state = "RUNNING"]
       ELSE task' = "running" /\ UNCHANGED handle
    /\ UNCHANGED <<job, history>>
    /\ UNCHANGED <<mapvars, poolvars, registryvars, streamvars>>

\* fn returns or raises.  The worker thread stores the outcome in the
\* future; the greenlet keeps it.
TaskEnds ==
    /\ task = "running"
    /\ task' = "done"
    /\ IF job.kind = "ThreadPoolExecutor"
       THEN handle' = IF job.fails
                      THEN set_exception(handle, job.strict,
                                         "Exception").handle
                      ELSE set_result(handle, job.strict, "fn(x)").handle
       ELSE UNCHANGED handle
    /\ UNCHANGED <<job, history>>
    /\ UNCHANGED <<mapvars, poolvars, registryvars, streamvars>>

\* The state of the Job Handle a future stands for.
Terminal(h) ==
    CASE h.state = "CANCELLED" -> "Cancelled"
      [] h.state = "FINISHED" /\ h.exception = "none" -> "Completed"
      [] h.state = "FINISHED" /\ h.exception # "none" -> "Failed"
      [] OTHER -> "Active"

\* future.result() or future.result(timeout), at the moment the call
\* returns or raises.
ResultCall(timeout) ==
    /\ job # NoJob
    /\ Len(history) < MaxCalls
    /\ timeout \/ wait_over(job.kind, handle, task)
    /\ LET called == result(job.kind, handle, job.strict, task, job.fails)
       IN /\ handle' = called.handle
          /\ history' = Append(history,
                               Called(IF timeout THEN "result(timeout)"
                                      ELSE "result()",
                                      Terminal(handle), called.out))
    /\ UNCHANGED <<job, task>>
    /\ UNCHANGED <<mapvars, poolvars, registryvars, streamvars>>

\* future.cancel()
CancelCall ==
    /\ job # NoJob
    /\ Len(history) < MaxCalls
    /\ task' = cancel_greenlet(job.kind, task)
    /\ handle' = [handle EXCEPT !.state = cancel(@)]
    /\ history' = Append(history,
                         Called("cancel()", Terminal(handle),
                                Returned(IF cancel(handle.state) = "CANCELLED"
                                         THEN "True" ELSE "False")))
    /\ UNCHANGED job
    /\ UNCHANGED <<mapvars, poolvars, registryvars, streamvars>>

FutureNext ==
    \/ \E kind \in Executors, strict \in BOOLEAN, fails \in BOOLEAN :
          SubmitTask(kind, strict, fails)
    \/ TaskStarts
    \/ TaskEnds
    \/ \E timeout \in BOOLEAN : ResultCall(timeout)
    \/ CancelCall

FutureSpec == Init /\ [][FutureNext]_vars

\* ----------------------------------------------------------- properties

\* The step is a call made on the future.
FutureCall == Len(history') = Len(history) + 1
\* The call the step makes.
ThisCall == history'[Len(history')]
IsResult(entry) == entry.method \in {"result()", "result(timeout)"}
\* What the result calls made on a terminal handle came to.
TerminalResults(h) ==
    {<<h[i].raised, h[i].value>> :
        i \in {j \in 1..Len(h) : IsResult(h[j]) /\ h[j].before # "Active"}}
\* A handle that has reached a terminal state stays in it, and the result
\* calls made on it since all came to the same.
Sticky ==
    Terminal(handle) # "Active"
    => /\ Terminal(handle') = Terminal(handle)
       /\ Cardinality(TerminalResults(history')) <= 1

\* C24: once the future of a task is Completed, Failed or Cancelled it stays
\* so, and every result() call made on it from then on returns the same
\* value or raises the same error, whichever executor class submitted it.
C24_TerminalSticky == [][Sticky]_vars

\* The same for the futures of SequentalExecutor and ThreadPoolExecutor
\* only.
C24_StickyWithoutGreenlets == [][job.kind \notin Greenlets => Sticky]_vars

\* A result(timeout) call that ran into its timeout.
TimedOut(entry) ==
    /\ entry.method = "result(timeout)"
    /\ entry.raised \in {"Timeout", "TimeoutError"}

\* C25: a result(timeout) call that times out raises the timeout error and
\* leaves the future as it was (the handle does not become Failed); a
\* result() call made after one that timed out, once the task has returned
\* its value, returns that value.
C25_TimeoutLeavesState ==
    [][FutureCall
       => /\ TimedOut(ThisCall) => handle' = handle
          /\ /\ \E i \in 1..Len(history) : TimedOut(history[i])
             /\ IsResult(ThisCall) /\ task = "done" /\ ~job.fails
             /\ handle.state # "CANCELLED"
             => ThisCall.raised = "none" /\ ThisCall.value = "fn(x)"]_vars

\* The same for the futures of ThreadPoolExecutor and SequentalExecutor.
C25_TimeoutLeavesThreadFuture ==
    [][FutureCall /\ job.kind \notin Greenlets
       => /\ TimedOut(ThisCall) => handle' = handle
          /\ /\ \E i \in 1..Len(history) : TimedOut(history[i])
             /\ IsResult(ThisCall) /\ task = "done" /\ ~job.fails
             /\ handle.state # "CANCELLED"
             => ThisCall.raised = "none" /\ ThisCall.value = "fn(x)"]_vars

\* C26: with the greenlet executor that ParallelExecutor is bound to,
\* cancel() on the future of a task that has not finished kills the
\* greenlet, and the task does not run from then on.
C26_CancelKillsGreenlet ==
    [][job.kind \in ParallelExecutor \cap Greenlets
       => /\ FutureCall /\ ThisCall.method = "cancel()" /\ task # "done"
             => task' = "killed"
          /\ /\ \E i \in 1..Len(history) : history[i].method = "cancel()"
             /\ task # "done"
             => task' = task]_vars

\* The same for the GreenletFuture of streams/executors/gevent.py.
C26_UnusedModuleKills ==
    [][job.kind = "gevent"
       => /\ FutureCall /\ ThisCall.method = "cancel()" /\ task # "done"
             => task' = "killed"
          /\ /\ \E i \in 1..Len(history) : history[i].method = "cancel()"
             /\ task # "done"
             => task' = task]_vars

\* ======================================================================
\*   Stream (streams/stream.py): the operations that read self.iterator
\* ======================================================================

Items == 1..MaxItem

\* What a Stream is constructed from: a dict, whose items are distinct, or
\* any other iterable (a list, a range, a generator); the items in the order
\* the iterable yields them.
Sources ==
    {[kind |-> "iterable", items |-> items] :
        items \in SeqsUpTo(Items, MaxStreamLen)}
    \cup {[kind |-> "dict", items |-> items] :
            items \in {q \in SeqsUpTo(Items, MaxStreamLen) :
                          \A i, j \in 1..Len(q) : q[i] = q[j] => i = j}}

\* iter(iterator), iteritems(iterator): an iterator over the items.
iter(items) == [kind |-> "iterator", items |-> items, stages |-> <<>>]

\* make_list(iterable): a list is returned as it is, anything else is read
\* into a new list.
make_list(it) == [kind |-> "list", items |-> it.items, stages |-> <<>>]

\* iter(self.iterator) read to the end: an iterator is left exhausted, a
\* list is left as it is.
exhaust(it) == IF it.kind = "list" THEN it ELSE [it EXCEPT !.items = <<>>]

\* chain([first_element], self.iterator)
chain(first_elements, it) ==
    [kind |-> "iterator", items |-> first_elements \o it.items,
     stages |-> <<>>]

\* heapq on a list: heap[0] is the smallest item, heappush adds one,
\* heappop takes the smallest away.  The heap is kept as the ascending
\* sequence of its items.
heappush(heap, item) ==
    SelectSeq(heap, LAMBDA x : x <= item) \o <<item>>
        \o SelectSeq(heap, LAMBDA x : x > item)
heappop(heap) == [item |-> Head(heap), heap |-> Tail(heap)]

\* utils.MaxHeapItem(value): compares the other way round, which makes a
\* heapq heap a max-heap.
MaxHeapItem(value) == 0 - value
value_of(item) == 0 - item

\* sorted(items)
RECURSIVE sorted(_)
sorted(items) ==
    IF items = <<>> THEN <<>> ELSE heappush(sorted(Tail(items)), Head(items))

\* median: the "for item in iterator" loop on the two heaps.
RECURSIVE median_loop(_, _, _)
median_loop(smallest, biggest, items) ==
    IF items = <<>> THEN [smallest |-> smallest, biggest |-> biggest]
    ELSE LET item == Head(items)
             pushed ==
                 IF item < value_of(smallest[1])
                 THEN [smallest |-> heappush(smallest, MaxHeapItem(item)),
                       biggest |-> biggest]
                 ELSE [smallest |-> smallest,
                       biggest |-> heappush(biggest, item)]
             balanced ==
                 IF Len(pushed.smallest) > Len(pushed.biggest) + 1
                 THEN [smallest |-> heappop(pushed.smallest).heap,
                       biggest |->
                           heappush(pushed.biggest,
                                    value_of(heappop(pushed.smallest).item))]
                 ELSE IF Len(pushed.biggest) > Len(pushed.smallest) + 1
                 THEN [smallest |->
                           heappush(pushed.smallest,
                                    MaxHeapItem(heappop(pushed.biggest).item)),
                       biggest |-> heappop(pushed.biggest).heap]
                 ELSE pushed
         IN median_loop(balanced.smallest, balanced.biggest, Tail(items))

\* max(biggest, smallest, key=len): the first of the longest.
max_by_len_last(biggest, smallest) ==
    IF Len(biggest) > Len(smallest) THEN "biggest" ELSE "smallest"
max_by_len(biggest, smallest) ==
    IF Len(biggest) >= Len(smallest) THEN "biggest" ELSE "smallest"

\* Stream.median() on the items its iterator yields.
median(items) ==
    IF items = <<>> THEN Yielded(<<>>)
    ELSE IF Len(items) = 1 THEN Yielded(<<items[1]>>)
    ELSE LET first == IF items[1] > items[2] THEN items[2] ELSE items[1]
             last == IF items[1] > items[2] THEN items[1] ELSE items[2]
             heaps == median_loop(<<MaxHeapItem(first)>>, <<last>>,
                                  SubSeq(items, 3, Len(items)))
         IN IF max_by_len(heaps.biggest, heaps.smallest) = "biggest"
            THEN Yielded(<<heaps.biggest[1]>>)
            ELSE Yielded(<<value_of(heaps.smallest[1])>>)

\* Stream.nth(nth_element) on the items, for nth_element > 1:
\* max(self.smallest(nth_element)) when there are that many, else None.
nth(items, nth_element) ==
    IF nth_element <= Len(items)
    THEN Yielded(<<sorted(items)[nth_element]>>)
    ELSE Yielded(<<>>)

\* One entry of ops.
Op(name, arg) == [name |-> name, arg |-> arg]

\* ---- map, filter, any and all: lazy stages on top of self.iterator

\* The function given to map and the predicate given to filter, any and
\* all.
function(x) == (x % MaxItem) + 1
predicate(x) == x >= 2

\* A Stream made by map or filter wraps a generator over the Stream it was
\* called on: the stage, and the mapper it runs on (0: imap or ifilter).
Stage(name, l) == [op |-> name, lease |-> l]
\* A Stream whose generators were left before they were exhausted.
Suspended == [kind |-> "suspended", items |-> <<>>, stages |-> <<>>]

\* imap(predicate, self)
imap(fn, items) == [i \in 1..Len(items) |-> fn[items[i]]]
\* mapper(predicate, self), the map of PoolOfPoolsMixin: the results of the
\* submitted tasks, yielded in the order of submission.
executor_map(fn, items) == [i \in 1..Len(items) |-> fn[items[i]]]
\* ifilter(predicate, self)
ifilter(items) == SelectSeq(items, predicate)
\* utils.filter_true((predicate, item)): (bool(predicate(item)), item)
filter_true(item) == <<predicate(item), item>>
\* _filter with a mapper: the pairs the mapper yields, then
\* (result for suitable, result in filtered if suitable).
results_of_suitable(filtered) ==
    LET suitable == SelectSeq(filtered, LAMBDA pair : pair[1])
    IN [i \in 1..Len(suitable) |-> suitable[i][2]]
mapped_filter(items) ==
    results_of_suitable(
        executor_map([x \in Items |-> filter_true(x)], items))

\* What a stage yields for the items of the Stream below it; "test" is
\* the map any and all make with their predicate.
stage_output(stage, items) ==
    CASE stage.op = "map" ->
             IF stage.lease = 0 THEN imap([x \in Items |-> function(x)], items)
             ELSE executor_map([x \in Items |-> function(x)], items)
      [] stage.op = "test" ->
             IF stage.lease = 0 THEN imap([x \in Items |-> predicate(x)], items)
             ELSE executor_map([x \in Items |-> predicate(x)], items)
      [] stage.op = "filter" ->
             IF stage.lease = 0 THEN ifilter(items)
             ELSE mapped_filter(items)

\* The items below the first stage, between the stages and out of the
\* last one.
RECURSIVE flow(_, _)
flow(stages, items) ==
    IF stages = <<>> THEN <<items>>
    ELSE <<items>> \o flow(Tail(stages), stage_output(Head(stages), items))

\* The position of the r-th item the predicate holds for, or one past the
\* end.
reach(items, r) ==
    LET hits == {p \in 1..Len(items) : predicate(items[p])}
    IN IF Cardinality(hits) < r THEN Len(items) + 1
       ELSE CHOOSE p \in hits : Cardinality({q \in hits : q <= p}) = r

\* How many times a stage has asked the Stream below it for an item (the
\* time it found it exhausted included) when it has been asked r times
\* itself.  map of PoolOfPoolsMixin submits worker_count items before its
\* first yield and one more before every further one.
asked(stage, count, items, r) ==
    IF r = 0 THEN 0
    ELSE LET m == IF stage.op = "filter" THEN reach(items, r)
                  ELSE Min(r, Len(items) + 1)
         IN IF stage.lease = 0 THEN m
            ELSE Min(m + count, Len(items) + 1)

\* How many times the Stream below stage k was asked, when the last stage
\* was asked r times.
RECURSIVE requests(_, _, _, _, _)
requests(stages, hs, flown, r, k) ==
    IF k = Len(stages) + 1 THEN r
    ELSE asked(stages[k],
               IF stages[k].lease = 0 THEN 0
               ELSE worker_count(hs[stages[k].lease].required_workers),
               flown[k], requests(stages, hs, flown, r, k + 1))

\* A generator has run to its end when it was asked once more than it had
\* items to yield; the map of PoolOfPoolsMixin then calls its callback.
RECURSIVE reclaim(_, _, _, _, _, _)
reclaim(ps, hs, stages, flown, asks, k) ==
    IF k > Len(stages) THEN [pools |-> ps, handed |-> hs]
    ELSE IF stages[k].lease # 0 /\ asks[k + 1] > Len(flown[k + 1])
    THEN reclaim(finished(ps, hs, stages[k].lease).pools,
                 finished(ps, hs, stages[k].lease).handed,
                 stages, flown, asks, k + 1)
    ELSE reclaim(ps, hs, stages, flown, asks, k + 1)

\* What the consumer of the last stage does: list reads to the end, any
\* stops at the first true item, all at the first false one.
first_where(items, wanted) ==
    LET hits == {p \in 1..Len(items) : items[p] = wanted}
    IN IF hits = {} THEN Len(items) + 1 ELSE SetMin(hits)
reads(name, items) ==
    CASE name = "list" -> Len(items) + 1
      [] name = "any" -> first_where(items, TRUE)
      [] name = "all" -> first_where(items, FALSE)
returns(name, items) ==
    CASE name = "list" -> Yielded(items)
      [] name = "any" ->
             [raised |-> "none", items |-> <<>>,
              truth |-> IF TRUE \in Range(items) THEN "True" ELSE "False"]
      [] name = "all" ->
             [raised |-> "none", items |-> <<>>,
              truth |-> IF FALSE \in Range(items) THEN "False" ELSE "True"]

\* list(stream), or any or all with the stage they put on top of the
\* Stream's own: what it returns, what is left of the Stream, and the pools
\* after the callbacks of the generators that ran to their end.  A list is
\* left as it is; generators that ran to their end leave an exhausted
\* iterator; otherwise the Stream goes on after the items that were taken,
\* unless they were taken by a generator that runs on a mapper.
consume(name, it, stages, ps, hs) ==
    LET flown == flow(stages, it.items)
        last == flown[Len(stages) + 1]
        asks == [k \in 1..Len(stages) + 1 |->
                    requests(stages, hs, flown, reads(name, last), k)]
        after == reclaim(ps, hs, stages, flown, asks, 1)
    IN [out |-> returns(name, last),
        iterator |-> IF it.kind = "list" THEN it
                     ELSE IF asks[Len(stages) + 1] > Len(last)
                     THEN iter(<<>>)
                     ELSE IF \A k \in 1..Len(it.stages) :
                                it.stages[k].lease = 0
                     THEN [it EXCEPT !.items =
                              SubSeq(@, asks[1] + 1, Len(@))]
                     ELSE Suspended,
        pools |-> after.pools,
        handed |-> after.handed]

\* The same operation run with no concurrency keyword on any stage.
sequential(stages) == [k \in 1..Len(stages) |-> Stage(stages[k].op, 0)]

\* Stream(iterable)
NewStream(src) ==
    /\ iterator = NoIterator
    /\ source' = src
    /\ iterator' = iter(src.items)
    /\ UNCHANGED <<ops, out>>
    /\ UNCHANGED <<mapvars, poolvars, registryvars, futurevars>>

\* stream.first: advance_iterator(self.iterator) raises TypeError for a
\* list (AttributeError with six on Python 2) and StopIteration for an
\* exhausted iterator.
First ==
    /\ iterator.kind \in {"iterator", "list"}
    /\ Len(ops) < MaxOps
    /\ ops' = Append(ops, Op("first", 0))
    /\ IF iterator.kind = "list"
       THEN out' = Failed("TypeError") /\ UNCHANGED iterator
       ELSE IF iterator.items = <<>>
       THEN out' = Failed("StopIteration") /\ UNCHANGED iterator
       ELSE LET first_element == Head(iterator.items)
            IN /\ iterator' = chain(<<first_element>>,
                                    [iterator EXCEPT !.items = Tail(@)])
               /\ out' = Yielded(<<first_element>>)
    /\ UNCHANGED source
    /\ UNCHANGED <<mapvars, poolvars, registryvars, futurevars>>

\* next(iter(stream)): one element is taken from the Stream.
NextItem ==
    /\ iterator.kind \in {"iterator", "list"}
    /\ Len(ops) < MaxOps
    /\ ops' = Append(ops, Op("next", 0))
    /\ IF iterator.items = <<>>
       THEN out' = Failed("StopIteration") /\ UNCHANGED iterator
       ELSE /\ out' = Yielded(<<Head(iterator.items)>>)
            /\ iterator' = IF iterator.kind = "list" THEN iterator
                           ELSE [iterator EXCEPT !.items = Tail(@)]
    /\ UNCHANGED source
    /\ UNCHANGED <<mapvars, poolvars, registryvars, futurevars>>

\* list(stream): the Stream is iterated to exhaustion.
Iterate ==
    /\ iterator.kind \in {"iterator", "list"}
    /\ Len(ops) < MaxOps
    /\ ops' = Append(ops, Op("list", 0))
    /\ LET done == consume("list", iterator, iterator.stages, pools, handed)
       IN /\ out' = done.out
          /\ iterator' = done.iterator
          /\ pools' = done.pools
          /\ handed' = done.handed
    /\ UNCHANGED <<source, kwargs, mapper, nregs>>
    /\ UNCHANGED <<mapvars, poolvars, futurevars>>

\* stream.nth(nth_element): min(self) for 1; otherwise self.iterator is
\* replaced by make_list(self.iterator) and the element is looked up there.
Nth(nth_element) ==
    /\ iterator.kind \in {"iterator", "list"}
    /\ Len(ops) < MaxOps
    /\ ops' = Append(ops, Op("nth", nth_element))
    /\ IF nth_element = 1
       THEN /\ out' = IF iterator.items = <<>> THEN Failed("ValueError")
                      ELSE Yielded(<<sorted(iterator.items)[1]>>)
            /\ iterator' = exhaust(iterator)
       ELSE /\ iterator' = make_list(iterator)
            /\ out' = nth(iterator.items, nth_element)
    /\ UNCHANGED source
    /\ UNCHANGED <<mapvars, poolvars, registryvars, futurevars>>

\* stream.median()
Median ==
    /\ iterator.kind \in {"iterator", "list"}
    /\ Len(ops) < MaxOps
    /\ ops' = Append(ops, Op("median", 0))
    /\ out' = median(iterator.items)
    /\ iterator' = exhaust(iterator)
    /\ UNCHANGED source
    /\ UNCHANGED <<mapvars, poolvars, registryvars, futurevars>>

\* What the parallel= keyword of map, filter, any and all is given as.
Parallel == {PyTrue} \cup {PyInt(n) : n \in {MaxRegReq}}
\* The stage a returned mapper makes: none for a mapper that raised.
staged(name, got) ==
    IF got.mapper.error THEN <<>>
    ELSE IF got.mapper = NoMapper THEN <<Stage(name, 0)>>
    ELSE <<Stage(name, Len(got.handed))>>

\* stream.map(function, **kw) and stream.filter(predicate, **kw): the mapper
\* is asked for at once, the items are read when the new Stream is.
Lazily(name, kw) ==
    /\ iterator.kind = "iterator"
    /\ Len(ops) < MaxOps
    /\ nregs < MaxRegs
    /\ nregs' = nregs + 1
    /\ kwargs' = kw
    /\ ops' = Append(ops, Op(name, 0))
    /\ \E got \in PoolOfPools_get(pools, handed, kw) :
          /\ pools' = got.pools
          /\ handed' = got.handed
          /\ mapper' = got.mapper
          /\ iterator' = [iterator EXCEPT !.stages = @ \o staged(name, got)]
          /\ out' = IF got.mapper.error THEN Failed("IndexError")
                    ELSE Yielded(<<>>)
    /\ UNCHANGED source
    /\ UNCHANGED <<mapvars, poolvars, futurevars>>

StreamMap(kw) == Lazily("map", kw)
StreamFilter(kw) == Lazily("filter", kw)

\* stream.any(predicate, **kw) and stream.all(predicate, **kw):
\* any(self.map(predicate, **kw)), all(self.map(predicate, **kw)).
Eagerly(name, kw) ==
    /\ iterator.kind = "iterator"
    /\ Len(ops) < MaxOps
    /\ nregs < MaxRegs
    /\ nregs' = nregs + 1
    /\ kwargs' = kw
    /\ ops' = Append(ops, Op(name, 0))
    /\ \E got \in PoolOfPools_get(pools, handed, kw) :
          /\ mapper' = got.mapper
          /\ IF got.mapper.error
             THEN /\ out' = Failed("IndexError")
                  /\ pools' = got.pools
                  /\ handed' = got.handed
                  /\ UNCHANGED iterator
             ELSE LET done == consume(name, iterator,
                                      iterator.stages \o staged("test", got),
                                      got.pools, got.handed)
                  IN /\ out' = done.out
                     /\ iterator' = done.iterator
                     /\ pools' = done.pools
                     /\ handed' = done.handed
    /\ UNCHANGED source
    /\ UNCHANGED <<mapvars, poolvars, futurevars>>

StreamAny(kw) == Eagerly("any", kw)
StreamAll(kw) == Eagerly("all", kw)

PipelineNext ==
    \/ \E src \in Sources : Len(src.items) <= MaxPipeLen /\ NewStream(src)
    \/ \E parallel \in Parallel :
          StreamMap([parallel |-> parallel, process |-> Absent])
    \/ \E parallel \in Parallel :
          StreamFilter([parallel |-> parallel, process |-> Absent])
    \/ \E parallel \in Parallel :
          StreamAny([parallel |-> parallel, process |-> Absent])
    \/ \E parallel \in Parallel :
          StreamAll([parallel |-> parallel, process |-> Absent])
    \/ Iterate

PipelineSpec == Init /\ [][PipelineNext]_vars

StreamNext ==
    \/ \E src \in Sources : NewStream(src)
    \/ First
    \/ NextItem
    \/ Iterate
    \/ \E nth_element \in {1, 2, MaxStreamLen + 1} : Nth(nth_element)
    \/ Median

StreamSpec == Init /\ [][StreamNext]_vars

\* ----------------------------------------------------------- properties

\* The step is a call of the named Stream operation.
IsOp(name) == Len(ops') = Len(ops) + 1 /\ ops'[Len(ops')].name = name
\* The item at index len // 2 of the sorted items: it has at most len // 2
\* items below it and more than len // 2 items not above it.
MiddleOf(items) ==
    CHOOSE x \in Range(items) :
        /\ Cardinality({i \in 1..Len(items) : items[i] < x})
              <= Len(items) \div 2
        /\ Cardinality({i \in 1..Len(items) : items[i] <= x})
              > Len(items) \div 2

\* C28: Stream.median() returns the item at index len // 2 of the sorted
\* items of the stream, whatever order they come in: the only item of a
\* one-item stream, and None for an empty stream.
C28_MedianIsMiddle ==
    [][IsOp("median")
       => out' = IF iterator.items = <<>> THEN Yielded(<<>>)
                 ELSE Yielded(<<MiddleOf(iterator.items)>>)]_vars

\* The median of a stream of four items that came in descending pairs, for
\* which the heaps had to be rebalanced: the upper one of the two in the
\* middle.
C28_Witness ==
    /\ Len(ops) = 1 /\ ops[1].name = "median"
    /\ source.items = <<2, 1, 1, 1>>
    /\ out = Yielded(<<1>>)

\* The median of a stream with an even number of items whose two middle
\* items differ.
C28_WitnessEven ==
    /\ Len(ops) = 1 /\ ops[1].name = "median"
    /\ source.items = <<2, 1, 2, 1>>
    /\ out = Yielded(<<2>>)

\* The last operation called on the Stream.
LastOp == ops[Len(ops)]
\* Reading first returns the element the Stream would yield first and
\* leaves the Stream with every element it had, that one included, in the
\* same order; read right after a first that returned, it returns the same
\* element.
FirstReadsOnly ==
    /\ iterator.items # <<>>
       => /\ out' = Yielded(<<Head(iterator.items)>>)
          /\ iterator'.items = iterator.items
    /\ Len(ops) > 0 /\ LastOp.name = "first" /\ out.raised = "none"
       => out' = out

\* C29: reading Stream.first any number of times in a row returns the same
\* first element every time, and a full iteration after it still yields
\* every element, the first included, in the original order.
C29_FirstRepeatable ==
    [][/\ IsOp("first") => FirstReadsOnly
       /\ IsOp("list") /\ Len(ops) > 0 /\ LastOp.name = "first"
                       /\ out.raised = "none"
          => Head(out'.items) = Head(out.items)]_vars

\* The same for a Stream whose self.iterator is an iterator.
C29_FirstRepeatableOnIterator ==
    [][/\ IsOp("first") /\ iterator.kind = "iterator" => FirstReadsOnly
       /\ IsOp("list") /\ Len(ops) > 0 /\ LastOp.name = "first"
                       /\ out.raised = "none"
          => Head(out'.items) = Head(out.items)]_vars

\* first was read twice and the Stream then iterated: all of the source.
C29_Scenario ==
    /\ Len(ops) = 3
    /\ ops[1].name = "first" /\ ops[2].name = "first" /\ ops[3].name = "list"
    /\ Len(source.items) = MaxStreamLen
    /\ out = Yielded(source.items)

\* The Stream has been iterated to exhaustion by list(stream).
Iterated == \E i \in 1..Len(ops) : ops[i].name = "list"
\* nth has replaced self.iterator by a list.
MadeList == \E i \in 1..Len(ops) : ops[i].name = "nth" /\ ops[i].arg > 1

\* C30: a Stream is single-pass: once it has been iterated to exhaustion,
\* iterating it again yields no elements, whatever it was constructed from.
C30_SinglePass == [][IsOp("list") /\ Iterated => out' = Yielded(<<>>)]_vars

\* The same for a Stream on which nth(n), n > 1, has not been called.
C30_SinglePassWithoutNth ==
    [][IsOp("list") /\ Iterated /\ ~MadeList => out' = Yielded(<<>>)]_vars

\* A Stream of MaxStreamLen items was iterated twice.
C30_Scenario ==
    /\ Len(ops) = 2
    /\ ops[1].name = "list" /\ ops[2].name = "list"
    /\ Len(source.items) = MaxStreamLen
    /\ out = Yielded(<<>>)

\* What the operation of this step returns when it, and every map and
\* filter the Stream was made by, is run with no concurrency keyword.
Sequentially ==
    LET name == ops'[Len(ops')].name
    IN IF name \in {"map", "filter"} THEN Yielded(<<>>)
       ELSE IF name = "list"
       THEN consume(name, iterator, sequential(iterator.stages),
                    pools, handed).out
       ELSE consume(name, iterator,
                    sequential(iterator.stages) \o <<Stage("test", 0)>>,
                    pools, handed).out

\* C27: filter, map, any and all called with parallel=True or parallel=n
\* come to what they come to without concurrency keywords: any and all
\* return the same truth value, and the Stream made by map and filter
\* yields the same elements in the same order when it is read.
C27_ParallelAsSequential ==
    [][Len(ops') = Len(ops) + 1
           /\ ops'[Len(ops')].name \in {"map", "filter", "any", "all", "list"}
       => out' = Sequentially]_vars

\* The same as long as PoolOfPools.get returns a mapper.
C27_ParallelAsSequentialWhenLeased ==
    [][Len(ops') = Len(ops) + 1 /\ out'.raised = "none"
           /\ ops'[Len(ops')].name \in {"map", "filter", "any", "all", "list"}
       => out' = Sequentially]_vars

\* A Stream of two items was filtered and mapped on mappers and read: the
\* one item that passed, mapped.
C27_Scenario ==
    /\ Len(ops) = 3
    /\ ops[1].name = "filter" /\ ops[2].name = "map" /\ ops[3].name = "list"
    /\ source.items = <<1, 2>>
    /\ Len(handed) = 2
    /\ \A l \in 1..2 : handed[l].status = "exhausted"
    /\ out = Yielded(<<function(2)>>)

\* ======================================================================
\*   The window of the map run (checked under MapSpec)
\* ======================================================================

\* The positions of the generator at which the consumer has asked again
\* after the results yielded so far, and those at which it holds the last
\* result without having asked for the next.
AskedAgain ==
    pc \in {"fetch", "pop_loop", "pop_drain", "result_loop", "result_drain",
            "drain", "done"}
HoldsResult == pc \in {"yielded_loop", "yielded_drain", "submit"}

\* C31: the window of a map with W >= 1 workers slides one element at a
\* time.  Nothing beyond the first min(W, len) inputs is submitted before the
\* first result is yielded; once the consumer has asked again after i results
\* exactly min(i + W, len) inputs have been submitted; while it holds the
\* i-th result only min(i - 1 + W, len) have been; and the input the
\* generator submits after that yield is input number i + W.
C31_WindowSlides ==
    required_workers >= 1 =>
        LET W == required_workers
            n == Len(iterable)
            i == Len(results)
        IN /\ i = 0 => Len(futures) <= Min(W, n)
           /\ AskedAgain => Len(futures) = Min(i + W, n)
           /\ HoldsResult => Len(futures) = Min(i - 1 + W, n)
           /\ pc = "submit" => args = i + W /\ Len(futures) = args - 1
           /\ Len(futures) <= Min(i + W, n)

\* Two results were yielded by a map of four inputs on two workers, the
\* consumer has asked for the third, and the fourth input is about to be
\* submitted.
C31_Witness ==
    /\ required_workers = 2
    /\ Len(iterable) = 4
    /\ Len(results) = 2
    /\ pc = "submit"
    /\ args = 4
    /\ Len(futures) = 3

\* ======================================================================
\*   The idle index and its reconciliation (checked under Spec)
\* ======================================================================

\* What squash hands to squash_workers for the index wk.
Reconciled(wk) == real_worker_availability(pop_empty(wk))

C32_WitnessTwice ==
    /\ capacity = <<4>>
    /\ 2 \in DOMAIN workers /\ workers[2] = <<1, 1>>
    /\ \E o \in Squashed : o.workers = (2 :> <<1>>)

\* C33, as claimed: between the calls, every executor referenced by the idle
\* index appears in exactly one bucket, exactly once.
C33_FiledOnce ==
    \A worker \in Filed(workers) : TimesFiled(workers, worker) = 1

\* C33, amended: when a call of get or get_any has returned a mapper, every
\* executor referenced by the idle index appears in exactly one bucket,
\* exactly once; an executor comes to appear more often only by the
\* completion of one of its leases.
C33_FiledOnceAfterGet ==
    [][/\ (ngets' = ngets + 1 /\ ~ret'.error)
            => \A worker \in Filed(workers') :
                    TimesFiled(workers', worker) = 1
       /\ \A worker \in Filed(workers') :
            (TimesFiled(workers', worker) > 1
             /\ TimesFiled(workers', worker) > TimesFiled(workers, worker))
            => \E l \in Leased :
                    Completes(l) /\ leases[l].worker = worker
      ]_vars

\* The executor of capacity 4 was filed twice under 2 when get(1) was
\* called: the call has leased it and left it filed once, under 1.
C33_Witness ==
    /\ capacity = <<4>>
    /\ Len(leases) = 3
    /\ leases[2] = [worker |-> 1, required_workers |-> 2,
                    status |-> "exhausted"]
    /\ leases[3] = [worker |-> 1, required_workers |-> 1,
                    status |-> "leased"]
    /\ ret = [worker |-> 1, availability |-> 2, required_workers |-> 1,
              created |-> FALSE, error |-> FALSE]
    /\ KeysOf(workers, 1) = {1}
    /\ TimesFiled(workers, 1) = 1

\* The amounts of the leases in flight on an executor, summed over the
\* first n leases.
RECURSIVE AmountInFlight(_, _, _)
AmountInFlight(ls, worker, n) ==
    IF n = 0 THEN 0
    ELSE AmountInFlight(ls, worker, n - 1)
            + (IF ls[n].worker = worker /\ ls[n].status = "leased"
               THEN ls[n].required_workers ELSE 0)
\* The true spare capacity of an executor.
TrueSpare(worker) ==
    capacity[worker] - AmountInFlight(leases, worker, Len(leases))

\* C34: every key an executor is filed under is at most its true spare
\* capacity, its capacity minus the amounts of its leases in flight; and the
\* leases in flight on an executor never sum to more than its capacity.
C34_KeyIsLowerBound ==
    /\ \A worker \in Filed(workers) :
        \A k \in KeysOf(workers, worker) : k <= TrueSpare(worker)
    /\ \A worker \in 1..Len(capacity) : TrueSpare(worker) >= 0

\* The executor of capacity 4 has a lease of 2 in flight and is filed under
\* 1 only: the key is a stale lower bound of the true spare 2.
C34_Witness ==
    /\ capacity = <<4>>
    /\ AmountInFlight(leases, 1, Len(leases)) = 2
    /\ KeysOf(workers, 1) = {1}
    /\ TrueSpare(1) = 2

\* C36: for every reachable idle index, squash (and with it the next get)
\* returns without raising.
C36_SquashReturns ==
    \A o \in squash(workers, capacity) : ~o.error

\* What does hold: squash returns whenever no two idle executors have the
\* same tracked spare.
C36_ReturnsWithoutMerge ==
    DistinctSpares(workers) => \A o \in squash(workers, capacity) : ~o.error

\* C36's example: two get(2) leases that overlapped have both completed; the
\* squash of the next get raises.
C36_Scenario ==
    /\ capacity = <<2, 2>>
    /\ workers = (2 :> <<1, 2>>)
    /\ Leased = {}
    /\ \A o \in squash(workers, capacity) : o.error

\* The tracked spares of the executors of S in the index wk, summed.
RECURSIVE SumOfSpares(_, _)
SumOfSpares(wk, S) ==
    IF S = {} THEN 0
    ELSE LET worker == CHOOSE w \in S : TRUE
         IN TrackedSpare(wk, worker) + SumOfSpares(wk, S \ {worker})
\* The idle capacity the index wk tracks.
TrackedIdle(wk) == SumOfSpares(wk, Filed(wk))

\* C37: a squash that returns conserves the tracked idle capacity, and an
\* executor it drops from the index has a survivor of its spare that was
\* expanded and is filed.
C37_SquashConserves ==
    \A o \in Squashed :
        /\ TrackedIdle(o.workers) = TrackedIdle(workers)
        /\ \A worker \in Filed(workers) \ Filed(o.workers) :
            \E survivor \in
                    WithSpare(workers, TrackedSpare(workers, worker)) :
                /\ survivor \in Filed(o.workers)
                /\ o.capacity[survivor] > capacity[survivor]

\* What does hold: a squash that returns never tracks more idle capacity than
\* was tracked before, and conserves it when it has nothing to merge.
C37_SquashNeverAdds ==
    \A o \in Squashed :
        /\ TrackedIdle(o.workers) <= TrackedIdle(workers)
        /\ DistinctSpares(workers)
                => TrackedIdle(o.workers) = TrackedIdle(workers)

\* C37's example: two executors of spare 1 and one of spare 2 are idle; the
\* squash returns with the spare-2 executor alone, 2 of the 4 idle workers
\* are no longer tracked.
C37_Scenario ==
    /\ Cardinality(WithSpare(workers, 1)) = 2
    /\ Cardinality(WithSpare(workers, 2)) = 1
    /\ TrackedIdle(workers) = 4
    /\ \E o \in Squashed : TrackedIdle(o.workers) = 2

\* Every lease taken on the executor has completed and been reclaimed.
AllReclaimed(worker) ==
    /\ \E l \in 1..Len(leases) : leases[l].worker = worker
    /\ \A l \in 1..Len(leases) :
            leases[l].worker = worker => leases[l].status = "exhausted"

\* C38: once every lease taken on an executor has completed and been
\* reclaimed, a squash that returns and merges it with no other executor
\* files it under its full capacity.
C38_FullCapacityTracked ==
    \A worker \in Filed(workers) :
        (AllReclaimed(worker) /\ WithSpare(workers,
                                    TrackedSpare(workers, worker)) = {worker})
        => \A o \in Squashed :
                /\ worker \in Filed(o.workers)
                /\ TrackedSpare(o.workers, worker) = o.capacity[worker]

\* What does hold: such an executor stays filed, under a spare between 1 and
\* its capacity.
C38_SomeCapacityTracked ==
    \A worker \in Filed(workers) :
        (AllReclaimed(worker) /\ WithSpare(workers,
                                    TrackedSpare(workers, worker)) = {worker})
        => \A o \in Squashed :
                /\ worker \in Filed(o.workers)
                /\ TrackedSpare(o.workers, worker) \in 1..o.capacity[worker]

\* C38's example: the executor of capacity 4 served get(4) and then get(2);
\* everything is reclaimed and squash files it under 2.
C38_Scenario ==
    /\ capacity = <<4>>
    /\ Len(leases) = 2
    /\ leases[2].required_workers = 2
    /\ AllReclaimed(1)
    /\ \E o \in Squashed : o.workers = (2 :> <<1>>)

\* C40: get_any on an idle index without keys fails, constructs no executor
\* and leaves the index, the capacities and the leases as they were; on an
\* index with keys it does what get(smallest key) does, the keys of empty
\* buckets included.
C40_GetAnyIsGetOfMinKey ==
    [][IsGetAny
       => IF DOMAIN workers = {}
          THEN /\ ret'.error
               /\ ~ret'.created
               /\ workers' = workers
               /\ capacity' = capacity
               /\ leases' = leases
          ELSE \E outcome \in get_outcomes(workers, capacity,
                                            SetMin(DOMAIN workers)) :
                /\ workers' = outcome.workers
                /\ capacity' = outcome.capacity
                /\ ret' = outcome.ret
                /\ leases' = leases \o lease(outcome.ret)
      ]_vars

\* get_any was the first call on the pool: it failed and nothing was
\* constructed.
C40_Witness ==
    /\ call = "get_any"
    /\ ngets = 1
    /\ ret.error
    /\ workers = <<>>
    /\ capacity = <<>>
    /\ leases = <<>>

\* get_any was called when the only key, 2, had an empty bucket: it did what
\* get(2) does, constructed a second executor of 2 workers and left no key.
C40_WitnessEmptyBucket ==
    /\ call = "get_any"
    /\ ret = [worker |-> 2, availability |-> 2, required_workers |-> 2,
              created |-> TRUE, error |-> FALSE]
    /\ capacity = <<2, 2>>
    /\ DOMAIN workers = {}
    /\ Len(leases) = 3

\* ======================================================================
\*   When a lease is reclaimed (checked under MapSpec and PipelineSpec)
\* ======================================================================

\* The generator is suspended: the mapper was called but never iterated, or
\* the consumer holds the result of a yield and has not asked for the next.
Suspended_at_yield == pc \in {"yielded_loop", "yielded_drain"}
\* The step is the call of the callback.
CallbackFires == callbacks' # callbacks

\* C39: the mapper get returned submits nothing and calls no callback until
\* it is iterated; the callback is called only in a step the generator takes
\* after all len(iterable) results were yielded and the consumer has asked
\* again, with an empty deque; as long as the generator is suspended at a
\* yield, the last one included, or has raised, the callback has not been
\* called, so a consumer that stops there never gives the lease back.
C39_ReclaimAfterLastAsk ==
    /\ [](pc = "created"
            => futures = <<>> /\ ran = {} /\ callbacks = <<>>)
    /\ []((Suspended_at_yield \/ pc \in {"cancelling", "raised"})
            => callbacks = <<>>)
    /\ [][CallbackFires
            => /\ pc = "drain" /\ pc' = "done"
               /\ queue = <<>>
               /\ Len(results) = Len(iterable)
               /\ results' = results
               /\ error = NoError
               /\ callbacks = <<>>
               /\ callbacks'
                    = <<[worker |-> Self,
                         required_workers |-> worker_count(required_workers)]>>
         ]_vars
    /\ [][(Suspended_at_yield /\ pc' # pc)
            => pc' \in {"submit", "drain"} /\ callbacks' = callbacks]_vars

\* The last of three results has been yielded on two workers, every task
\* is done and the deque is empty, and the consumer has not asked again:
\* the callback has not been called.
C39_Witness ==
    /\ pc = "yielded_drain"
    /\ required_workers = 2
    /\ Len(iterable) = 3
    /\ Len(results) = 3
    /\ queue = <<>>
    /\ \A i \in 1..Len(futures) : futures[i] = "FINISHED"
    /\ callbacks = <<>>

\* The last operation called on the Stream.
LastOpName == IF ops = <<>> THEN "none" ELSE ops[Len(ops)].name
\* The executors filed in the idle index of a pool of Stream.WORKERS.
FiledIn(pool) == Filed(pools[pool].workers)

\* C39 on Streams: map and filter take their mapper without reading an item
\* and without ending a lease; a lease ends only in list, any or all, and
\* its executor is then filed under the leased amount; an executor that was
\* leased is filed only while one of its leases has ended.
C39_LeaseEndsWhenExhausted ==
    /\ [][(nregs' = nregs + 1 /\ LastOpName' \in {"map", "filter"})
            => /\ iterator'.items = iterator.items
               /\ SubSeq(handed', 1, Len(handed)) = handed]_vars
    /\ [][\A l \in 1..Len(handed) :
            handed'[l] # handed[l]
            => /\ handed[l].status = "leased"
               /\ handed'[l] = [handed[l] EXCEPT !.status = "exhausted"]
               /\ LastOpName' \in {"list", "any", "all"}
               /\ Len(ops') = Len(ops) + 1
               /\ handed[l].worker \in FiledIn(handed[l].pool)'
         ]_vars
    /\ [](\A pool \in {"parallels", "processes"} :
            \A worker \in FiledIn(pool) :
                \E l \in 1..Len(handed) :
                    /\ handed[l].pool = pool
                    /\ handed[l].worker = worker
                    /\ handed[l].status = "exhausted")

\* any(parallel=2) on a Stream of <<2, 1>> returned True at the first item:
\* its mapper was left before its end, the lease is still out and no
\* executor is idle.
C39_Scenario ==
    /\ source.items = <<2, 1>>
    /\ ops = <<Op("any", 0)>>
    /\ out.truth = "True"
    /\ Len(handed) = 1
    /\ handed[1].status = "leased"
    /\ handed[1].required_workers = 2
    /\ FiledIn("parallels") = {}

\* ======================================================================
\*   Progress of the callers of one ExecutorPool (checked under FairLockSpec)
\* ======================================================================

\* Lease l is out and its tasks may still be running.
TasksInFlight(l) == l <= Len(leases) /\ leases[l].status = "leased"
\* The consumer of lease l stands at the lock of worker_finished.
ReclaimWaits(l) == l <= Len(leases) /\ leases[l].status = "ended"
\* Its executor has been filed by worker_finished.
Reclaimed(l) == l <= Len(leases) /\ leases[l].status = "exhausted"

\* The statements of get that run under the lock.
UnderLockPcs == {"squash", "squash_workers", "get_suitable_worker", "return"}

\* C35: a thread is at a statement under the lock exactly when it owns the
\* lock, and the owner can always run its next statement, whatever tasks are
\* in flight; under fair scheduling every thread that called get passes the
\* lock and leaves get (with its mapper, or with the exception squash
\* raised), and every consumer whose map has ended gets the lock and files
\* its executor.
C35_NoWaitUnderLock ==
    /\ [](\A t \in Callers : lock.owner = t => ENABLED UnderLock(t))
    /\ [](\A t \in Callers : lock.owner = t <=> threads[t].pc \in UnderLockPcs)
    /\ \A t \in Callers :
            (threads[t].pc # "outside") ~> (threads[t].pc = "outside")
    /\ \A l \in 1..MaxLockGets :
            ReclaimWaits(l) ~> Reclaimed(l)

\* A thread is inside get and owns the lock while the tasks of a lease are
\* in flight, and a second thread waits to enter get.
C35_Witness ==
    \E t1, t2 \in Callers :
        /\ lock.owner = t1
        /\ threads[t1].pc = "get_suitable_worker"
        /\ threads[t2].pc = "lock"
        /\ \E l \in 1..Len(leases) : TasksInFlight(l)

\* A thread is inside get and owns the lock while the consumer of a lease
\* whose map has ended waits to file its executor.
C35_WitnessReclaim ==
    \E t \in Callers :
        /\ lock.owner = t
        /\ threads[t].pc = "squash_workers"
        /\ \E l \in 1..Len(leases) : ReclaimWaits(l)

====
